---- MODULE Spec2Model ----
(***************************************************************************)
(* Model of src/math_expression_by_string.py: evaluate(), an arithmetic    *)
(* evaluator that works by rewriting the expression text with regular      *)
(* expressions.  Texts are sequences of one-character strings, so that     *)
(* every regular expression of the source is modelled by what it matches   *)
(* on the characters.  Floats are modelled as signed decimal floating      *)
(* point numbers (sign, mantissa, exponent) with Prec significant digits;  *)
(* str() and float() are modelled on the characters they write and read.   *)
(***************************************************************************)
EXTENDS Integers, Sequences, FiniteSets, TLC

(***************************************************************************)
(* Characters and character classes of the regular expressions.            *)
(***************************************************************************)
Digits == <<"0", "1", "2", "3", "4", "5", "6", "7", "8", "9">>

DigitSet == {Digits[i] : i \in 1..10}

\* \d
IsDigit(c) == c \in DigitSet

DigitVal(c) == (CHOOSE i \in 1..10 : Digits[i] = c) - 1

DigitChar(d) == Digits[d + 1]

\* [a-zA-Z]
Letters ==
    {"a", "b", "c", "d", "e", "f", "g", "h", "i", "j", "k", "l", "m",
     "n", "o", "p", "q", "r", "s", "t", "u", "v", "w", "x", "y", "z",
     "A", "B", "C", "D", "E", "F", "G", "H", "I", "J", "K", "L", "M",
     "N", "O", "P", "Q", "R", "S", "T", "U", "V", "W", "X", "Y", "Z"}

\* [a-zA-Z_]
IsIdentStart(c) == c \in Letters \/ c = "_"

\* \w
IsWord(c) == IsIdentStart(c) \/ IsDigit(c)

\* \s
IsSpace(c) == c \in {" ", "\t", "\n"}

\* the elements of the sequence d
Range(d) == {d[i] : i \in 1..Len(d)}

\* s[i:j] of Python with 1-based inclusive bounds: characters i..j of s
Slice(s, i, j) == IF i > j THEN <<>> ELSE SubSeq(s, i, j)

\* s with r put after s[i..j], which stays
SpliceAfter(s, i, j, r) == Slice(s, 1, j) \o r \o Slice(s, j + 1, Len(s))

\* s[:m.start()] + r + s[m.end():] where the match covers characters i..j
Splice(s, i, j, r) == Slice(s, 1, i - 1) \o r \o Slice(s, j + 1, Len(s))

(***************************************************************************)
(* Floats.  A number is [neg, m, e]: (-1)^neg * m * 10^e, with m = 0 and   *)
(* e = 0 for the two zeros, and m not a multiple of 10 otherwise.          *)
(* Arithmetic rounds its result to Prec significant digits (round half to  *)
(* even), as IEEE doubles round theirs to 53 bits.                         *)
(***************************************************************************)
Prec == 4

RECURSIVE Pow10(_)
Pow10(n) == IF n <= 0 THEN 1 ELSE 10 * Pow10(n - 1)

RECURSIVE NumDigits(_)
NumDigits(m) == IF m < 10 THEN 1 ELSE 1 + NumDigits(m \div 10)

RECURSIVE StripZeros(_, _)
StripZeros(m, e) ==
    CHOOSE r \in {IF x = 0 THEN <<0, 0>>
                  ELSE IF x % 10 = 0 THEN StripZeros(x \div 10, y + 1)
                  ELSE <<x, y>> : x \in {m}, y \in {e}} : TRUE

\* m * 10^e (with a sticky bit: the exact value is slightly above) rounded
\* to Prec digits, in canonical form
RoundDigits(m, e, sticky) ==
    LET k == NumDigits(m) - Prec IN
    IF k <= 0 THEN StripZeros(m, e)
    ELSE LET q == m \div Pow10(k)
             r == m % Pow10(k)
             half == 5 * Pow10(k - 1)
             up == r > half \/ (r = half /\ (sticky \/ q % 2 = 1))
         IN StripZeros(IF up THEN q + 1 ELSE q, e + k)

\* RoundDigits of the values of m and e
RoundMag(m, e, sticky) ==
    CHOOSE r \in {RoundDigits(x, y, sticky) : x \in {m}, y \in {e}} : TRUE

MkNum(neg, me) ==
    CHOOSE r \in {[neg |-> neg, m |-> x[1], e |-> x[2]] : x \in {me}} : TRUE

Zero == [neg |-> FALSE, m |-> 0, e |-> 0]

NegZero == [neg |-> TRUE, m |-> 0, e |-> 0]

IsZero(x) == x.m = 0

\* an integer as a float
IntNum(i) == IF i < 0 THEN MkNum(TRUE, RoundMag(-i, 0, FALSE))
             ELSE MkNum(FALSE, RoundMag(i, 0, FALSE))

Neg(x) == [x EXCEPT !.neg = ~x.neg]

\* position of the decimal point: |x| = 0.d1d2... * 10^DecPt(x)
DecPt(x) == NumDigits(x.m) + x.e

\* |x| < |y|
MagLess(x, y) ==
    IF x.m = 0 THEN y.m # 0
    ELSE IF y.m = 0 THEN FALSE
    ELSE IF DecPt(x) # DecPt(y) THEN DecPt(x) < DecPt(y)
    ELSE x.m * Pow10(Prec - NumDigits(x.m)) < y.m * Pow10(Prec - NumDigits(y.m))

Less(x, y) ==
    IF x.m = 0 /\ y.m = 0 THEN FALSE
    ELSE IF x.neg /\ ~y.neg THEN TRUE
    ELSE IF ~x.neg /\ y.neg THEN FALSE
    ELSE IF x.neg THEN MagLess(y, x)
    ELSE MagLess(x, y)

\* numeric equality of Python: 0.0 == -0.0
NumEq(x, y) == (x.m = 0 /\ y.m = 0) \/ x = y

\* |a| + |b| for DecPt(a) >= DecPt(b), b # 0: b's digits beyond the ninth
\* of the sum are dropped into the sticky bit
AddMag(a, b) ==
    LET lo == IF a.e < b.e THEN a.e ELSE b.e
        da == a.e - lo
        db == b.e - lo
        \* digits of the larger operand when written at exponent lo
        t  == IF NumDigits(a.m) + da > 9 THEN NumDigits(a.m) + da - 9 ELSE 0
    IN IF t = 0 THEN RoundMag(a.m * Pow10(da) + b.m * Pow10(db), lo, FALSE)
       ELSE \* then db = 0: b is the operand with the lower exponent
            IF t > Prec THEN RoundMag(a.m * Pow10(da - t), lo + t, TRUE)
            ELSE RoundMag(a.m * Pow10(da - t) + (b.m \div Pow10(t)), lo + t,
                          b.m % Pow10(t) # 0)

\* |a| - |b| for |a| > |b|, b # 0
SubMag(a, b) ==
    LET lo == IF a.e < b.e THEN a.e ELSE b.e
        da == a.e - lo
        db == b.e - lo
        t  == IF NumDigits(a.m) + da > 9 THEN NumDigits(a.m) + da - 9 ELSE 0
    IN IF t = 0 THEN RoundMag(a.m * Pow10(da) - b.m * Pow10(db), lo, FALSE)
       ELSE IF t > Prec THEN RoundMag(a.m * Pow10(da - t) - 1, lo + t, TRUE)
            ELSE IF b.m % Pow10(t) = 0
                 THEN RoundMag(a.m * Pow10(da - t) - (b.m \div Pow10(t)),
                               lo + t, FALSE)
                 ELSE RoundMag(a.m * Pow10(da - t) - (b.m \div Pow10(t)) - 1,
                               lo + t, TRUE)

\* a + b
AddFloats(a, b) ==
    IF a.m = 0 /\ b.m = 0 THEN (IF a.neg /\ b.neg THEN NegZero ELSE Zero)
    ELSE IF a.m = 0 THEN b
    ELSE IF b.m = 0 THEN a
    ELSE IF a.neg = b.neg
         THEN (IF MagLess(a, b) THEN MkNum(a.neg, AddMag(b, a))
               ELSE MkNum(a.neg, AddMag(a, b)))
    ELSE IF MagLess(a, b) THEN MkNum(b.neg, SubMag(b, a))
    ELSE IF MagLess(b, a) THEN MkNum(a.neg, SubMag(a, b))
    ELSE Zero

\* a + b, of the values of a and b
AddF(a, b) ==
    CHOOSE r \in {AddFloats(x, y) : x \in {a}, y \in {b}} : TRUE

\* a - b
SubF(a, b) == AddF(a, Neg(b))

\* x * y * 10^e rounded: a product of more than nine digits is computed
\* in two parts, the digits beyond the low three of the second part going
\* into the sticky bit
MulMag(x, y, e) ==
    IF NumDigits(x) + NumDigits(y) <= 9 THEN RoundMag(x * y, e, FALSE)
    ELSE LET p1 == x * (y \div 1000)
             p2 == x * (y % 1000)
         IN RoundMag(p1 + (p2 \div 1000), e + 3, p2 % 1000 # 0)

\* a * b
MulFloats(a, b) ==
    IF a.m = 0 \/ b.m = 0 THEN (IF a.neg # b.neg THEN NegZero ELSE Zero)
    ELSE MkNum(a.neg # b.neg, MulMag(a.m, b.m, a.e + b.e))

\* a * b, of the values of a and b
MulF(a, b) ==
    CHOOSE r \in {MulFloats(x, y) : x \in {a}, y \in {b}} : TRUE

\* a / b for b # 0: the quotient of a.m * 10^n by b.m has more than Prec
\* digits; it is computed in two steps of long division, the first for
\* a.m * 10^n1 and the second for n2 more digits (no product exceeds nine
\* digits), and rounded
DivFloats(a, b) ==
    IF a.m = 0 THEN (IF a.neg # b.neg THEN NegZero ELSE Zero)
    ELSE LET n  == Prec + 1 + NumDigits(b.m) - NumDigits(a.m)
             n2 == IF n < 9 - Prec THEN n ELSE 9 - Prec
             n1 == n - n2
             x1 == a.m * Pow10(n1)
             x2 == (x1 % b.m) * Pow10(n2)
         IN MkNum(a.neg # b.neg,
                  RoundMag((x1 \div b.m) * Pow10(n2) + (x2 \div b.m),
                           a.e - n - b.e, x2 % b.m # 0))

\* a / b, of the values of a and b
DivF(a, b) ==
    CHOOSE r \in {DivFloats(x, y) : x \in {a}, y \in {b}} : TRUE

One == [neg |-> FALSE, m |-> 1, e |-> 0]

Half == [neg |-> FALSE, m |-> 5, e |-> -1]

RECURSIVE Pow10Mod(_, _)
Pow10Mod(n, b) == IF n <= 0 THEN 1 % b ELSE (10 * Pow10Mod(n - 1, b)) % b

\* C fmod(a, b) for b # 0: |a| mod |b| with the sign of a, exact
FmodFloats(a, b) ==
    IF a.m = 0 THEN a
    ELSE IF a.e >= b.e
         THEN MkNum(a.neg, RoundMag(((a.m % b.m) * Pow10Mod(a.e - b.e, b.m)) % b.m,
                                    b.e, FALSE))
    ELSE IF b.e - a.e >= Prec THEN a
    ELSE MkNum(a.neg, RoundMag(a.m % (b.m * Pow10(b.e - a.e)), a.e, FALSE))

\* fmod(a, b), of the values of a and b
Fmod(a, b) ==
    CHOOSE r \in {FmodFloats(x, y) : x \in {a}, y \in {b}} : TRUE

\* C floor(x)
FloorF(x) ==
    CHOOSE r \in
        {IF y.e >= 0 THEN y
         ELSE LET q == IF -y.e > 9 THEN 0 ELSE y.m \div Pow10(-y.e)
              IN IF y.neg THEN MkNum(TRUE, RoundMag(q + 1, 0, FALSE))
                 ELSE MkNum(FALSE, RoundMag(q, 0, FALSE)) : y \in {x}} : TRUE

\* the rounding of the quotient div to the integer below it or nearest to
\* it
DivModFloor(vx, wx, div, mod) ==
    CHOOSE r \in
        {<<IF div.m = 0 THEN [Zero EXCEPT !.neg = (vx.neg # wx.neg)]
           ELSE IF Less(Half, SubF(div, fl)) THEN AddF(fl, One)
           ELSE fl, mod>> : fl \in {FloorF(div)}} : TRUE

\* the remainder mod0 of fmod and the quotient div0 brought to the sign of
\* the divisor
DivModAdjust(vx, wx, mod0, div0) ==
    LET adj == mod0.m # 0 /\ wx.neg # mod0.neg
    IN CHOOSE r \in
           {DivModFloor(vx, wx, div,
                        IF mod0.m = 0 THEN [Zero EXCEPT !.neg = wx.neg]
                        ELSE IF adj THEN AddF(mod0, wx) ELSE mod0) :
            div \in {IF adj THEN SubF(div0, One) ELSE div0}} : TRUE

\* float_divmod of CPython, which a // b and a % b of two floats call
\* (b # 0): <<floordiv, mod>>
DivMod(vx, wx) ==
    CHOOSE r \in {DivModAdjust(vx, wx, mod0, DivF(SubF(vx, mod0), wx)) :
                  mod0 \in {Fmod(vx, wx)}} : TRUE

\* a // b for b # 0
FloorDivF(a, b) == DivMod(a, b)[1]

\* a % b for b # 0
ModF(a, b) == DivMod(a, b)[2]

\* the float is an integer
IsIntegral(x) == x.e >= 0

RECURSIVE PowNat(_, _)
PowNat(a, n) ==
    IF n = 0 THEN One
    ELSE IF n % 2 = 0
         THEN CHOOSE r \in {MulF(h, h) : h \in {PowNat(a, n \div 2)}} : TRUE
    ELSE MulF(a, PowNat(a, n - 1))

\* largest decimal exponent of a double (sys.float_info.max_10_exp)
MaxExp10 == 308

\* a ** b of two floats (float_pow of CPython).  st is "ok" with the value
\* v, "raise" for ZeroDivisionError and OverflowError, and "unmodelled"
\* where the result is not a decimal float of the model: an irrational
\* power, the complex power of a negative base, an exponent of four or
\* more digits.
PowFloats(a, b) ==
    IF b.m = 0 THEN [st |-> "ok", v |-> One]
    ELSE IF a.m = 0
         THEN IF b.neg THEN [st |-> "raise", v |-> Zero]
              ELSE [st |-> "ok",
                    v |-> IF a.neg /\ IsIntegral(b) /\ b.e = 0 /\ b.m % 2 = 1
                          THEN NegZero ELSE Zero]
    ELSE IF a = One THEN [st |-> "ok", v |-> One]
    ELSE IF ~IsIntegral(b) \/ DecPt(b) > 3 THEN [st |-> "unmodelled", v |-> Zero]
    ELSE LET n   == b.m * Pow10(b.e)
             p   == PowNat([a EXCEPT !.neg = FALSE], n)
             mag == IF b.neg THEN DivF(One, p) ELSE p
         IN IF DecPt(mag) > MaxExp10 + 1 THEN [st |-> "raise", v |-> Zero]
            ELSE [st |-> "ok", v |-> [mag EXCEPT !.neg = (a.neg /\ n % 2 = 1)]]

\* a ** b, of the values of a and b
PowF(a, b) ==
    CHOOSE r \in {PowFloats(x, y) : x \in {a}, y \in {b}} : TRUE

(***************************************************************************)
(* str() of a number and float() of a text.                                *)
(***************************************************************************)
RECURSIVE NatText(_)
NatText(n) == IF n < 10 THEN <<DigitChar(n)>>
              ELSE NatText(n \div 10) \o <<DigitChar(n % 10)>>

RECURSIVE Zeros(_)
Zeros(n) == IF n <= 0 THEN <<>> ELSE <<"0">> \o Zeros(n - 1)

\* repr() switches to exponent notation outside 1e-4 <= |x| < 1e16
\* (float_repr_style 'short': decpt <= -4 or decpt > 16)
ReprMinDecPt == -4

ReprMaxDecPt == 16

\* str(x) of a float x
StrFloatDigits(x) ==
    LET d    == NatText(x.m)
        nd   == Len(d)
        dp   == nd + x.e
        sign == IF x.neg THEN <<"-">> ELSE <<>>
        ex   == dp - 1
        exd  == NatText(IF ex < 0 THEN -ex ELSE ex)
    IN sign \o
       (IF x.m = 0 THEN <<"0", ".", "0">>
        ELSE IF dp > ReprMinDecPt /\ dp <= 0
             THEN <<"0", ".">> \o Zeros(-dp) \o d
        ELSE IF dp > 0 /\ dp <= ReprMaxDecPt
             THEN (IF dp >= nd THEN d \o Zeros(dp - nd) \o <<".", "0">>
                   ELSE Slice(d, 1, dp) \o <<".">> \o Slice(d, dp + 1, nd))
        ELSE <<d[1]>> \o (IF nd > 1 THEN <<".">> \o Slice(d, 2, nd) ELSE <<>>)
             \o <<"e">> \o (IF ex < 0 THEN <<"-">> ELSE <<"+">>)
             \o (IF Len(exd) < 2 THEN <<"0">> \o exd ELSE exd))

\* str(x), of the value of x
StrFloat(x) ==
    CHOOSE r \in {StrFloatDigits(y) : y \in {x}} : TRUE

\* str(x) of an int x (an integral number)
StrInt(x) ==
    (IF x.neg /\ x.m # 0 THEN <<"-">> ELSE <<>>) \o NatText(x.m) \o Zeros(x.e)

RECURSIVE DigitsNat(_)
DigitsNat(d) ==
    CHOOSE r \in {IF x = <<>> THEN 0
                  ELSE 10 * DigitsNat(Slice(x, 1, Len(x) - 1)) + DigitVal(x[Len(x)]) :
                  x \in {d}} : TRUE

RECURSIVE DropLeadingZeros(_)
DropLeadingZeros(d) == IF d # <<>> /\ d[1] = "0" THEN DropLeadingZeros(Tail(d))
                       ELSE d

\* the number written by the digits d scaled by 10^e, rounded to a float
DecimalValue(neg, d, e) ==
    CHOOSE r \in
        {LET keep == IF Len(sig) > Prec + 1 THEN Prec + 1 ELSE Len(sig)
             rest == Slice(sig, keep + 1, Len(sig))
         IN MkNum(neg, RoundMag(DigitsNat(Slice(sig, 1, keep)), e + Len(rest),
                                \E k \in 1..Len(rest) : rest[k] # "0")) :
         sig \in {DropLeadingZeros(d)}} : TRUE

\* index of the last character of the maximal run of digits that starts at
\* i (i - 1 when s[i] is no digit)
RECURSIVE DigitRunEnd(_, _)
DigitRunEnd(s, i) == IF i <= Len(s) /\ IsDigit(s[i]) THEN DigitRunEnd(s, i + 1)
                     ELSE i - 1

NoFloat == [ok |-> FALSE, v |-> Zero]

\* the float of t, its integer part t[i1..ie], its fraction ending at fe and
\* its exponent at xe
FloatValue(t, i1, ie, fe, xe) ==
    LET n  == Len(t)
        hd == ie + 1 <= n /\ t[ie + 1] = "."
        ip == Slice(t, i1, ie)
        fp == Slice(t, IF hd THEN ie + 2 ELSE ie + 1, fe)
        hx == fe + 1 <= n /\ t[fe + 1] \in {"e", "E"}
        xs == hx /\ fe + 2 <= n /\ t[fe + 2] \in {"-", "+"}
        xp == Slice(t, IF xs THEN fe + 3 ELSE fe + 2, xe)
        ex == IF ~hx THEN 0
              ELSE IF t[fe + 2] = "-" THEN -DigitsNat(xp) ELSE DigitsNat(xp)
    IN IF ip = <<>> /\ fp = <<>> THEN NoFloat
       ELSE IF hx /\ (xp = <<>> \/ Len(xp) > 3) THEN NoFloat
       ELSE IF xe # n THEN NoFloat
       ELSE [ok |-> TRUE,
             v |-> DecimalValue(i1 = 2 /\ t[1] = "-", ip \o fp, ex - Len(fp))]

\* the exponent, after the fraction that ends at fe
FloatExponent(t, i1, ie, fe) ==
    LET n  == Len(t)
        hx == fe + 1 <= n /\ t[fe + 1] \in {"e", "E"}
        xs == hx /\ fe + 2 <= n /\ t[fe + 2] \in {"-", "+"}
    IN CHOOSE r \in {FloatValue(t, i1, ie, fe, xe) :
                        xe \in {IF hx THEN DigitRunEnd(t, IF xs THEN fe + 3 ELSE fe + 2)
                                ELSE fe}} : TRUE

\* the fraction, after the integer part that ends at ie
FloatFraction(t, i1, ie) ==
    CHOOSE r \in {FloatExponent(t, i1, ie, fe) :
                     fe \in {IF ie + 1 <= Len(t) /\ t[ie + 1] = "."
                             THEN DigitRunEnd(t, ie + 2) ELSE ie}} : TRUE

\* the integer part, from i1 on
FloatInteger(t, i1) ==
    CHOOSE r \in {FloatFraction(t, i1, ie) : ie \in {DigitRunEnd(t, i1)}} : TRUE

\* float(t) of a text without whitespace: [sign] digits [. [digits]] or
\* [sign] . digits, then an optional exponent e [sign] digits.  ok is FALSE
\* where float() raises ValueError.  (The texts inf, nan and infinity, and
\* underscores between digits, are not modelled.)  Each part is bound to
\* its value once it is found.
FloatOf(t) ==
    CHOOSE r \in {FloatInteger(u, IF Len(u) >= 1 /\ u[1] \in {"-", "+"} THEN 2 ELSE 1) :
                     u \in {t}} : TRUE

(***************************************************************************)
(* The regular expressions of eval_flat.                                   *)
(***************************************************************************)
\* \d+(?:\.\d+)? matched at i: a literal pattern that takes no sign
NumEndUnsigned(s, i) ==
    LET d == DigitRunEnd(s, i)
    IN IF d < i THEN 0
       ELSE IF d + 2 <= Len(s) /\ s[d + 1] = "." /\ IsDigit(s[d + 2])
            THEN DigitRunEnd(s, d + 2)
       ELSE d

\* -?\d+(?:\.\d+)? matched at i: the index of the last character of the
\* (greedy) match, 0 when there is none
NumEnd(s, i) ==
    LET j == IF i <= Len(s) /\ s[i] = "-" THEN i + 1 ELSE i
    IN CHOOSE r \in
           {IF d < j THEN 0
            ELSE IF d + 2 <= Len(s) /\ s[d + 1] = "." /\ IsDigit(s[d + 2])
                 THEN DigitRunEnd(s, d + 2)
            ELSE d : d \in {DigitRunEnd(s, j)}} : TRUE

\* the text op stands at s[k..]
HasAt(s, k, op) == k + Len(op) - 1 <= Len(s) /\ Slice(s, k, k + Len(op) - 1) = op

NoMatch == [found |-> FALSE, start |-> 0, end |-> 0,
            g1 |-> <<>>, op |-> <<>>, g3 |-> <<>>]

\* the match of s[i..e1], the operator op and the literal after it
BinMatch(s, i, e1, op) ==
    CHOOSE m \in {[found |-> TRUE, start |-> i, end |-> e3,
                   g1 |-> Slice(s, i, e1), op |-> op,
                   g3 |-> Slice(s, e1 + 1 + Len(op), e3)] :
                  e3 \in {NumEnd(s, e1 + 1 + Len(op))}} : TRUE

\* the match with the first alternative of ops that stands after s[i..e1]
\* before a literal, e1 = 0 when no literal stands at i
BinMatchAfter(s, i, e1, ops) ==
    CHOOSE r \in
        {IF e1 = 0 \/ ok = {} THEN NoMatch
         ELSE BinMatch(s, i, e1, ops[CHOOSE k \in ok : \A h \in ok : k <= h]) :
         ok \in {{k \in 1..Len(ops) :
                    HasAt(s, e1 + 1, ops[k])
                    /\ NumEnd(s, e1 + 1 + Len(ops[k])) # 0}}} : TRUE

\* (NUM)(op1|op2|...)(NUM) matched at i, the alternatives ops tried in order
BinMatchAt(s, i, ops) ==
    CHOOSE r \in {BinMatchAfter(s, i, e1, ops) : e1 \in {NumEnd(s, i)}} : TRUE

\* (?<![\d)]) at i
NotAfterLiteral(s, i) == i = 1 \/ ~(IsDigit(s[i - 1]) \/ s[i - 1] = ")")

\* ep: r'(-?\d+(?:\.\d+)?)(\*\*)(-?\d+(?:\.\d+)?)'
ExpOps == << <<"*", "*">> >>

\* pat_mul: r'(-?\d+(?:\.\d+)?)(?P<op>//|%|\*|/)(-?\d+(?:\.\d+)?)'
MulOps == << <<"/", "/">>, <<"%">>, <<"*">>, <<"/">> >>

\* pat_add: r'(?<![\d)])(-?\d+(?:\.\d+)?)(?P<op>[+\-])(-?\d+(?:\.\d+)?)'
AddOps == << <<"+">>, <<"-">> >>

\* pattern.search(s) from position p on: the leftmost match
RECURSIVE SearchFrom(_, _, _, _)
SearchFrom(s, p, ops, lookbehind) ==
    CHOOSE r \in
        {IF q > Len(s) THEN NoMatch
         ELSE CHOOSE n \in
                  {IF m.found THEN m ELSE SearchFrom(s, q + 1, ops, lookbehind) :
                   m \in {IF lookbehind /\ ~NotAfterLiteral(s, q) THEN NoMatch
                          ELSE BinMatchAt(s, q, ops)}} : TRUE :
         q \in {p}} : TRUE

\* list(ep.finditer(s)): the non-overlapping matches, left to right
RECURSIVE FindIter(_, _, _)
FindIter(s, p, ops) ==
    CHOOSE r \in {IF m.found THEN <<m>> \o FindIter(s, m.end + 1, ops) ELSE <<>> :
                  m \in {SearchFrom(s, p, ops, FALSE)}} : TRUE

\* m = matches[-1]
ExpMatch(s) ==
    CHOOSE m \in {IF matches = <<>> THEN NoMatch ELSE matches[Len(matches)] :
                  matches \in {FindIter(s, 1, ExpOps)}} : TRUE

\* pat_mul.search(s)
MulMatch(s) == SearchFrom(s, 1, MulOps, FALSE)

\* pat_add.search(s)
AddMatch(s) == SearchFrom(s, 1, AddOps, TRUE)

(***************************************************************************)
(* The regular expressions of eval_expr and of the identifier pass.        *)
(***************************************************************************)
\* index of the last character of the maximal run of \w that starts at i
RECURSIVE WordRunEnd(_, _)
WordRunEnd(s, i) == IF i <= Len(s) /\ IsWord(s[i]) THEN WordRunEnd(s, i + 1)
                    ELSE i - 1

\* index of the first parenthesis at or after i (Len(s) + 1 when none): the
\* end of [^()]*
RECURSIVE NextParen(_, _)
NextParen(s, i) == IF i > Len(s) \/ s[i] \in {"(", ")"} THEN i
                   ELSE NextParen(s, i + 1)

NoCall == [found |-> FALSE, start |-> 0, end |-> 0, fn |-> <<>>, args |-> <<>>]

\* func_pat: r'([a-zA-Z_]\w*)\(([^()]*)\)' matched at i
FuncMatchAt(s, i) ==
    IF ~IsIdentStart(s[i]) THEN NoCall
    ELSE LET w == WordRunEnd(s, i)
             c == NextParen(s, w + 2)
         IN IF w + 1 <= Len(s) /\ s[w + 1] = "(" /\ c <= Len(s) /\ s[c] = ")"
            THEN [found |-> TRUE, start |-> i, end |-> c,
                  fn |-> Slice(s, i, w), args |-> Slice(s, w + 2, c - 1)]
            ELSE NoCall

\* func_pat.search(s)
RECURSIVE FuncSearch(_, _)
FuncSearch(s, p) ==
    IF p > Len(s) THEN NoCall
    ELSE LET m == FuncMatchAt(s, p)
         IN IF m.found THEN m ELSE FuncSearch(s, p + 1)

\* grp_pat: r'\(([^()]*)\)', searched from p on; the group's text is in args
RECURSIVE GrpSearch(_, _)
GrpSearch(s, p) ==
    IF p > Len(s) THEN NoCall
    ELSE LET c == NextParen(s, p + 1)
         IN IF s[p] = "(" /\ c <= Len(s) /\ s[c] = ")"
            THEN [found |-> TRUE, start |-> p, end |-> c,
                  fn |-> <<>>, args |-> Slice(s, p + 1, c - 1)]
            ELSE GrpSearch(s, p + 1)

\* the arguments from the last one to the first
RECURSIVE SplitArgsBackwards(_, _)
SplitArgsBackwards(t, cur) ==
    IF t = <<>> THEN (IF cur = <<>> THEN <<>> ELSE <<cur>>)
    ELSE IF t[1] = ","
         THEN SplitArgsBackwards(Tail(t), <<>>) \o (IF cur = <<>> THEN <<>> ELSE <<cur>>)
    ELSE SplitArgsBackwards(Tail(t), cur \o <<t[1]>>)

\* [p for p in args_str.split(',') if p]
RECURSIVE SplitArgs(_, _)
SplitArgs(t, cur) ==
    IF t = <<>> THEN (IF cur = <<>> THEN <<>> ELSE <<cur>>)
    ELSE IF t[1] = "," THEN (IF cur = <<>> THEN <<>> ELSE <<cur>>)
                             \o SplitArgs(Tail(t), <<>>)
    ELSE SplitArgs(Tail(t), Append(cur, t[1]))

\* expr as it is, whitespace kept
StripSpaceKept(t) == t

\* re.sub(r'\s+', '', expression)
RECURSIVE StripSpace(_)
StripSpace(t) == IF t = <<>> THEN <<>>
                 ELSE IF IsSpace(t[1]) THEN StripSpace(Tail(t))
                 ELSE <<t[1]>> \o StripSpace(Tail(t))

(***************************************************************************)
(* Values of Python: a number with its type, which decides its str().      *)
(***************************************************************************)
FloatVal(x) == [t |-> "float", n |-> x]

IntVal(x) == [t |-> "int", n |-> x]

\* str(v) for an int, a float or a bool
Str(v) == IF v.t = "float" THEN StrFloat(v.n)
          ELSE IF v.t = "int" THEN StrInt(v.n)
          ELSE IF v.n.m = 0 THEN <<"F", "a", "l", "s", "e">>
          ELSE <<"T", "r", "u", "e">>

\* the entries of a dict, in order: the index of key k (0 when absent)
KeyIndex(d, k) == IF \E i \in 1..Len(d) : d[i].k = k
                  THEN CHOOSE i \in 1..Len(d) : d[i].k = k
                  ELSE 0

\* \b[a-zA-Z_]\w*\b matched at i: a letter or underscore that no word
\* character precedes (the run of \w that follows is taken whole, so the
\* closing \b holds)
IdentAt(s, i) == IsIdentStart(s[i]) /\ (i = 1 \/ ~IsWord(s[i - 1]))

\* re.sub(r'\b[a-zA-Z_]\w*\b', _var, expr) from position i on: the text
\* after the substitutions, or the first token _var raises on
RECURSIVE ReplaceVars(_, _, _, _)
ReplaceVars(s, i, variables, fnames) ==
    IF i > Len(s) THEN [ok |-> TRUE, text |-> <<>>, tok |-> <<>>]
    ELSE IF ~IdentAt(s, i)
         THEN LET r == ReplaceVars(s, i + 1, variables, fnames)
              IN [r EXCEPT !.text = <<s[i]>> \o @]
    ELSE LET w   == WordRunEnd(s, i)
             tok == Slice(s, i, w)
             vi  == KeyIndex(variables, tok)
         IN IF vi = 0 /\ tok \notin fnames
            THEN [ok |-> FALSE, text |-> <<>>, tok |-> tok]
            ELSE LET r == ReplaceVars(s, w + 1, variables, fnames)
                 IN [r EXCEPT !.text =
                        (IF vi # 0
                         THEN Str([t |-> variables[vi].vt, n |-> variables[vi].n])
                         ELSE tok) \o @]

(***************************************************************************)
(* Arithmetic of the three passes and the functions of the table.          *)
(***************************************************************************)
Ok(x) == [st |-> "ok", v |-> x]

Raise == [st |-> "raise", v |-> Zero]

\* r = a ** b inside the try of the first pass
ExpArith(a, op, b) == PowF(a, b)

\* the if/elif chain of the second pass inside its try: ZeroDivisionError
\* for a zero right operand of /, // and %
MulArith(a, op, b) ==
    IF op = <<"*">> THEN Ok(MulF(a, b))
    ELSE IF b.m = 0 THEN Raise
    ELSE IF op = <<"/">> THEN Ok(DivF(a, b))
    ELSE IF op = <<"/", "/">> THEN Ok(FloorDivF(a, b))
    ELSE Ok(ModF(a, b))

\* the if/else of the third pass
AddArith(a, op, b) == IF op = <<"+">> THEN Ok(AddF(a, b)) ELSE Ok(SubF(a, b))

\* max(*vals), min(*vals) of two or more floats: the first greatest (least)
RECURSIVE MaxOf(_, _)
MaxOf(best, rest) ==
    IF rest = <<>> THEN best
    ELSE MaxOf(IF Less(best, rest[1]) THEN rest[1] ELSE best, Tail(rest))

RECURSIVE MinOf(_, _)
MinOf(best, rest) ==
    IF rest = <<>> THEN best
    ELSE MinOf(IF Less(rest[1], best) THEN rest[1] ELSE best, Tail(rest))

OkVal(v) == [st |-> "ok", v |-> v]

RaiseVal == [st |-> "raise", v |-> FloatVal(Zero)]

UnmodelledVal == [st |-> "unmodelled", v |-> FloatVal(Zero)]

\* the float result of a power as a value
PowVal(a, b) ==
    LET r == PowF(a, b)
    IN IF r.st = "ok" THEN OkVal(FloatVal(r.v))
       ELSE IF r.st = "raise" THEN RaiseVal
       ELSE UnmodelledVal

\* all_functions[fn](*vals): the functions of the model.  math.fabs,
\* math.floor and math.pow stand for the callables of dir(math); max, min
\* and pow are the built-ins; foo and bar are the user functions of the
\* tests, lambda x: x*42 and lambda x, y: x + y.  A call with the wrong
\* number of arguments raises TypeError, max and min of one float too.
ApplyImpl(impl, vals) ==
    LET n == Len(vals) IN
    IF impl = "math.fabs"
    THEN (IF n = 1 THEN OkVal(FloatVal([vals[1] EXCEPT !.neg = FALSE])) ELSE RaiseVal)
    ELSE IF impl = "math.floor"
    THEN (IF n = 1 THEN OkVal(IntVal(FloorF(vals[1]))) ELSE RaiseVal)
    ELSE IF impl = "math.pow"
    THEN (IF n # 2 THEN RaiseVal
          ELSE IF vals[1].neg /\ vals[1].m # 0 /\ ~IsIntegral(vals[2]) THEN RaiseVal
          ELSE PowVal(vals[1], vals[2]))
    ELSE IF impl = "max"
    THEN (IF n >= 2 THEN OkVal(FloatVal(MaxOf(vals[1], Tail(vals)))) ELSE RaiseVal)
    ELSE IF impl = "min"
    THEN (IF n >= 2 THEN OkVal(FloatVal(MinOf(vals[1], Tail(vals)))) ELSE RaiseVal)
    ELSE IF impl = "pow"
    THEN (IF n = 2 THEN PowVal(vals[1], vals[2]) ELSE RaiseVal)
    ELSE IF impl = "foo"
    THEN (IF n = 1 THEN OkVal(FloatVal(MulF(vals[1], IntNum(42)))) ELSE RaiseVal)
    ELSE IF impl = "bar"
    THEN (IF n = 2 THEN OkVal(FloatVal(AddF(vals[1], vals[2]))) ELSE RaiseVal)
    ELSE RaiseVal

\* names as texts
N_fabs == <<"f", "a", "b", "s">>

N_floor == <<"f", "l", "o", "o", "r">>

N_pow == <<"p", "o", "w">>

N_max == <<"m", "a", "x">>

N_min == <<"m", "i", "n">>

N_foo == <<"f", "o", "o">>

N_bar == <<"b", "a", "r">>

Fn(origin, impl) == [origin |-> origin, impl |-> impl]

\* math_funcs = {name: getattr(math, name) for name in dir(math) if ...}
MathFuncs ==
    (N_fabs :> Fn("math", "math.fabs")) @@ (N_floor :> Fn("math", "math.floor"))
    @@ (N_pow :> Fn("math", "math.pow"))

\* {'max': max, 'min': min, 'pow': pow}
BuiltinFuncs ==
    (N_max :> Fn("builtin", "max")) @@ (N_min :> Fn("builtin", "min"))
    @@ (N_pow :> Fn("builtin", "pow"))

\* a merge in which the entries of d1 win
UpdateReversed(d1, d2) == d1 @@ d2

\* {**d1, **d2} and d1.update(d2): the entries of d2 win
Update(d1, d2) == d2 @@ d1

\* the functions argument as a table
RECURSIVE UserFuncs(_)
UserFuncs(entries) ==
    IF entries = <<>> THEN <<>>
    ELSE Update(UserFuncs(Slice(entries, 1, Len(entries) - 1)),
                entries[Len(entries)].k :> Fn("user", entries[Len(entries)].impl))

\* math_funcs.update({...}); all_functions = {**math_funcs, **functions}
AllFunctions(functions) == Update(Update(MathFuncs, BuiltinFuncs), UserFuncs(functions))

(***************************************************************************)
(* The state of one call of evaluate().                                    *)
(*   call          the arguments of the call (form, lits, ops and name     *)
(*                 record how the expression text was put together)        *)
(*   pc            the position in evaluate()                              *)
(*   all_functions the merged function table                               *)
(*   expr          the local expr: the expression without whitespace,      *)
(*                 then with its variables replaced                        *)
(*   stack         the activations of eval_expr, the innermost last        *)
(*   outcome       what evaluate() returned or raised                      *)
(*   invoked       the functions invoked so far, in order                  *)
(*   arith         the number of arithmetic operations of eval_flat so far *)
(***************************************************************************)
VARIABLES call, pc, all_functions, expr, stack, outcome, invoked, arith

\* The objects of class OpenAddressingSet by the name the program holds them
\* under, the keys each one should hold (added and not removed afterwards),
\* and the method called last.
VARIABLES sets, keys, last

\* hash(None) of the running interpreter
VARIABLES none_hash

\* The attribute iter_index of the sets that have it, by the name of the
\* set, and the iterations: for each result of iter() the name of the set it
\* was called on, the keys next() returned for it so far, and whether next()
\* raised StopIteration for it.
VARIABLES iter_index, iterations

eval_vars == <<call, pc, all_functions, expr, stack, outcome, invoked, arith>>

set_vars == <<sets, keys, last, none_hash, iter_index, iterations>>

vars == <<call, pc, all_functions, expr, stack, outcome, invoked, arith,
          sets, keys, last, none_hash, iter_index, iterations>>

NoOutcome == [kind |-> "none", err |-> "", tok |-> <<>>, v |-> Zero]

\* raise ExpressionError(...): the errors are told apart by their message
Error(err, tok) == [kind |-> "error", err |-> err, tok |-> tok, v |-> Zero]

Returned(x) == [kind |-> "value", err |-> "", tok |-> <<>>, v |-> x]

\* the evaluation left the numbers of the model (see PowF)
Unmodelled == [kind |-> "unmodelled", err |-> "", tok |-> <<>>, v |-> Zero]

\* an activation of eval_expr(s): at is the loop it is in, m the match of
\* the call or group being resolved, parts and vals the argument texts and
\* the values of those evaluated so far
Frame(s) == [s |-> s, at |-> "fn", m |-> NoCall, parts |-> <<>>, vals |-> <<>>]

Top == stack[Len(stack)]

SetTop(f) == [stack EXCEPT ![Len(stack)] = f]

Finish(o) ==
    /\ pc' = "done"
    /\ outcome' = o
    /\ stack' = <<>>

\* the wrapper of @arg_type(0, str)
ArgType ==
    /\ pc = "arg_type"
    /\ IF call.npos = 0 THEN Finish(Error("MissingArgument", <<>>))
       ELSE IF call.etype # "str" THEN Finish(Error("ArgumentType", <<>>))
       ELSE pc' = "validate" /\ UNCHANGED <<outcome, stack>>
    /\ UNCHANGED <<call, all_functions, expr, invoked, arith>>
    /\ UNCHANGED set_vars

\* isinstance(v, (int, float)): a bool is an int
IsNumeric(t) == t \in {"int", "float", "bool"}

\* the dict a defaulted argument stands for
Entries(t, entries) == IF t = "none" THEN <<>> ELSE entries

\* the checks of variables alone
ValidArgsNoFunctions(c) ==
    /\ c.vtype \in {"none", "dict"}
    /\ c.ftype \in {"none", "dict"}
    /\ \A i \in 1..Len(Entries(c.vtype, c.variables)) :
          c.variables[i].kt = "str" /\ IsNumeric(c.variables[i].vt)

\* the checks of variables and functions
ValidArgs(c) ==
    /\ c.vtype \in {"none", "dict"}
    /\ c.ftype \in {"none", "dict"}
    /\ \A i \in 1..Len(Entries(c.vtype, c.variables)) :
          c.variables[i].kt = "str" /\ IsNumeric(c.variables[i].vt)
    /\ \A i \in 1..Len(Entries(c.ftype, c.functions)) :
          c.functions[i].kt = "str" /\ c.functions[i].vt = "func"

Validate ==
    /\ pc = "validate"
    /\ IF ValidArgs(call) THEN pc' = "build" /\ UNCHANGED <<outcome, stack>>
       ELSE Finish(Error("ArgumentType", <<>>))
    /\ UNCHANGED <<call, all_functions, expr, invoked, arith>>
    /\ UNCHANGED set_vars

BuildTable ==
    /\ pc = "build"
    /\ all_functions' = AllFunctions(Entries(call.ftype, call.functions))
    /\ pc' = "strip"
    /\ UNCHANGED <<call, expr, stack, outcome, invoked, arith>>
    /\ UNCHANGED set_vars

StripWhitespace ==
    /\ pc = "strip"
    /\ expr' = StripSpace(call.expression)
    /\ IF expr' = <<>> THEN Finish(Error("Empty", <<>>))
       ELSE pc' = "resolve" /\ UNCHANGED <<outcome, stack>>
    /\ UNCHANGED <<call, all_functions, invoked, arith>>
    /\ UNCHANGED set_vars

\* expr = re.sub(..., _var, expr), then return eval_expr(expr)
ResolveIdentifiers ==
    /\ pc = "resolve"
    /\ \E r \in {ReplaceVars(expr, 1, Entries(call.vtype, call.variables),
                               DOMAIN all_functions)} :
          IF r.ok
          THEN /\ expr' = r.text
               /\ stack' = <<Frame(r.text)>>
               /\ pc' = "eval"
               /\ UNCHANGED outcome
          ELSE Finish(Error("UnknownIdentifier", r.tok)) /\ UNCHANGED expr
    /\ UNCHANGED <<call, all_functions, invoked, arith>>
    /\ UNCHANGED set_vars

\* one iteration of the function-call loop up to the evaluation of the
\* arguments
FunctionCall ==
    /\ pc = "eval" /\ Top.at = "fn"
    /\ \E m \in {FuncSearch(Top.s, 1)} :
          IF ~m.found
          THEN stack' = SetTop([Top EXCEPT !.at = "grp"]) /\ UNCHANGED <<pc, outcome>>
          ELSE IF m.fn \notin DOMAIN all_functions
          THEN Finish(Error("UnknownFunction", m.fn))
          ELSE /\ stack' = SetTop([Top EXCEPT !.at = "args", !.m = m,
                                              !.parts = SplitArgs(m.args, <<>>),
                                              !.vals = <<>>])
               /\ UNCHANGED <<pc, outcome>>
    /\ UNCHANGED <<call, all_functions, expr, invoked, arith>>
    /\ UNCHANGED set_vars

\* eval_expr(p) for the next argument
EvalArgument ==
    /\ pc = "eval" /\ Top.at = "args" /\ Len(Top.vals) < Len(Top.parts)
    /\ stack' = Append(stack, Frame(Top.parts[Len(Top.vals) + 1]))
    /\ UNCHANGED <<call, pc, all_functions, expr, outcome, invoked, arith>>
    /\ UNCHANGED set_vars

\* r = all_functions[fn](*vals) and the substitution of str(r)
Invoke ==
    /\ pc = "eval" /\ Top.at = "args" /\ Len(Top.vals) = Len(Top.parts)
    /\ \E f \in {all_functions[Top.m.fn]} : \E r \in {ApplyImpl(f.impl, Top.vals)} :
          /\ invoked' = Append(invoked, [fn |-> Top.m.fn, origin |-> f.origin,
                                         impl |-> f.impl, vals |-> Top.vals])
          /\ IF r.st = "raise" THEN Finish(Error("Evaluation", Top.m.fn))
             ELSE IF r.st = "unmodelled" THEN Finish(Unmodelled)
             ELSE /\ stack' = SetTop([Top EXCEPT
                                 !.s = Splice(Top.s, Top.m.start, Top.m.end, Str(r.v)),
                                 !.at = "fn", !.m = NoCall,
                                 !.parts = <<>>, !.vals = <<>>])
                  /\ UNCHANGED <<pc, outcome>>
    /\ UNCHANGED <<call, all_functions, expr, arith>>
    /\ UNCHANGED set_vars

\* one iteration of the grouping loop up to the evaluation of the group
Grouping ==
    /\ pc = "eval" /\ Top.at = "grp"
    /\ \E m \in {GrpSearch(Top.s, 1)} :
          IF ~m.found THEN stack' = SetTop([Top EXCEPT !.at = "exp"])
          ELSE stack' = Append(SetTop([Top EXCEPT !.at = "inner", !.m = m]),
                               Frame(m.args))
    /\ UNCHANGED <<call, pc, all_functions, expr, outcome, invoked, arith>>
    /\ UNCHANGED set_vars

\* one iteration of a loop of eval_flat: the match m is replaced by the
\* text of a op b, or the loop ends
FlatStep(next, m, Arith(_, _, _)) ==
    /\ IF ~m.found
       THEN /\ stack' = SetTop([Top EXCEPT !.at = next])
            /\ UNCHANGED <<pc, outcome, arith>>
       ELSE \E a \in {FloatOf(m.g1).v}, b \in {FloatOf(m.g3).v} :
            \E r \in {Arith(a, m.op, b)} :
               /\ arith' = arith + 1
               /\ IF r.st = "raise" THEN Finish(Error("Evaluation", m.op))
                  ELSE IF r.st = "unmodelled" THEN Finish(Unmodelled)
                  ELSE /\ stack' = SetTop([Top EXCEPT
                                !.s = Splice(Top.s, m.start, m.end, StrFloat(r.v))])
                       /\ UNCHANGED <<pc, outcome>>
    /\ UNCHANGED <<call, all_functions, expr, invoked>>

Exponentiation ==
    /\ pc = "eval" /\ Top.at = "exp"
    /\ \E m \in {ExpMatch(Top.s)} : FlatStep("mul", m, ExpArith)
    /\ UNCHANGED set_vars

Multiplicative ==
    /\ pc = "eval" /\ Top.at = "mul"
    /\ \E m \in {MulMatch(Top.s)} : FlatStep("add", m, MulArith)
    /\ UNCHANGED set_vars

Additive ==
    /\ pc = "eval" /\ Top.at = "add"
    /\ \E m \in {AddMatch(Top.s)} : FlatStep("float", m, AddArith)
    /\ UNCHANGED set_vars

\* return float(res): to the caller of evaluate(), into the argument list
\* of a call, or into the text around a group
Return ==
    /\ pc = "eval" /\ Top.at = "float"
    /\ \E f \in {FloatOf(Top.s)}, n \in {Len(stack)} :
          IF ~f.ok THEN Finish(Error("Incomplete", Top.s))
          ELSE IF n = 1 THEN Finish(Returned(f.v))
          ELSE /\ UNCHANGED <<pc, outcome>>
               /\ LET up == stack[n - 1]
                  IN stack' = Append(Slice(stack, 1, n - 2),
                        IF up.at = "args"
                        THEN [up EXCEPT !.vals = Append(@, f.v)]
                        ELSE [up EXCEPT
                               !.s = Splice(up.s, up.m.start, up.m.end, StrFloat(f.v)),
                               !.at = "grp", !.m = NoCall])
    /\ UNCHANGED <<call, all_functions, expr, invoked, arith>>
    /\ UNCHANGED set_vars

(***************************************************************************)
(* The calls of evaluate() the model starts from.                          *)
(***************************************************************************)
\* largest natural number written as a literal
MaxLit == 3

NatLits == {NatText(i) : i \in 0..MaxLit}

\* literals with a fraction, of several digits, and large enough for the
\* product of two to reach 1e16, which str() writes with an exponent
BigLit == <<"1", "0", "0", "0", "0", "0", "0", "0", "0">>

FracLits == {<<"0", ".", "5">>, <<"1", "2", ".", "5">>, <<"0", ".", "2", "5">>}

Lits == NatLits \cup FracLits \cup {BigLit}

\* the literals of the three-operand expressions
ChainLits == NatLits \cup {<<"-", "2">>, <<"0", ".", "5">>, BigLit}

OpPow == <<"*", "*">>

OpFloorDiv == <<"/", "/">>

MulOpSet == {<<"*">>, <<"/">>, OpFloorDiv, <<"%">>}

AddOpSet == {<<"+">>, <<"-">>}

HighOpSet == MulOpSet \cup {OpPow}

BinOpSet == HighOpSet \cup AddOpSet

DivOpSet == {<<"/">>, OpFloorDiv, <<"%">>}

\* an entry of variables, and one of functions
Var(k, vt, n) == [kt |-> "str", k |-> k, vt |-> vt, n |-> n, impl |-> ""]

Func(k, impl) == [kt |-> "str", k |-> k, vt |-> "func", n |-> Zero, impl |-> impl]

\* evaluate(text, variables, functions), a variables or functions of
\* <<>> standing for the default
Call(form, lits, ops, name, text, variables, functions) ==
    [form |-> form, lits |-> lits, ops |-> ops, name |-> name,
     npos |-> 1, etype |-> "str", expression |-> text,
     vtype |-> IF variables = <<>> THEN "none" ELSE "dict", variables |-> variables,
     ftype |-> IF functions = <<>> THEN "none" ELSE "dict", functions |-> functions]

Plain(form, lits, ops, text) == Call(form, lits, ops, <<>>, text, <<>>, <<>>)

\* "a op b"
BasicCalls ==
    {Plain("a.b", <<a, b>>, <<op>>, a \o op \o b) :
        a \in Lits, b \in Lits, op \in BinOpSet}

\* "a**b**c"
PowerCalls ==
    {Plain("a**b**c", <<a, b, c>>, <<OpPow, OpPow>>, a \o OpPow \o b \o OpPow \o c) :
        a \in NatLits, b \in NatLits, c \in NatLits}

\* "a A b H c" and "a p b q c"
ChainCall(a, p, b, q, c) == Plain("a.b.c", <<a, b, c>>, <<p, q>>, a \o p \o b \o q \o c)

PrecedenceCalls ==
    {ChainCall(abc[1], A, abc[2], H, abc[3]) :
        abc \in NatLits \X NatLits \X NatLits, A \in AddOpSet, H \in HighOpSet}

AssocCalls ==
    {ChainCall(abc[1], pq[1], abc[2], pq[2], abc[3]) :
        abc \in ChainLits \X ChainLits \X ChainLits,
        pq \in (MulOpSet \X MulOpSet) \cup (AddOpSet \X AddOpSet)}

\* "-a+b" and "a op -b"
SignCalls ==
    {Plain("-a+b", <<a, b>>, << <<"+">> >>, <<"-">> \o a \o <<"+">> \o b) :
        a \in Lits, b \in Lits}
    \cup {Plain("a.-b", <<a, b>>, <<op>>, a \o op \o <<"-">> \o b) :
            a \in Lits, b \in Lits, op \in BinOpSet}

\* the literals of the expressions with calls, groups and names
SmallLits == {NatText(i) : i \in 1..MaxLit}

Paren(t) == <<"(">> \o t \o <<")">>

Call1(f, x) == f \o Paren(x)

Call2(f, x, y) == f \o Paren(x \o <<",">> \o y)

N_x == <<"x">>

N_y == <<"y">>

\* the user functions of the tests: functions={"foo": ..., "bar": ...}
UserTable == <<Func(N_foo, "foo"), Func(N_bar, "bar")>>

WithFuncs(form, lits, name, text) ==
    Call(form, lits, <<>>, name, text, <<>>, UserTable)

\* calls, calls in groups, groups in arguments, calls in arguments
StructureCalls ==
    {WithFuncs("f(a)", <<a>>, f, Call1(f, a)) :
        a \in SmallLits, f \in {N_fabs, N_floor, N_foo, N_max}}
    \cup {WithFuncs("f(a,b)", <<a, b>>, f, Call2(f, a, b)) :
            a \in SmallLits, b \in SmallLits, f \in {N_max, N_min, N_pow, N_bar}}
    \cup {WithFuncs("(f(a,b)+c)", abc, f,
                    Paren(Call2(f, abc[1], abc[2]) \o <<"+">> \o abc[3])) :
            abc \in SmallLits \X SmallLits \X SmallLits, f \in {N_max, N_bar}}
    \cup {WithFuncs("f((a+b),c)", abc, f,
                    Call2(f, Paren(abc[1] \o <<"+">> \o abc[2]), abc[3])) :
            abc \in SmallLits \X SmallLits \X SmallLits, f \in {N_max, N_bar}}
    \cup {WithFuncs("f(a*(b+c))", abc, f,
                    Call1(f, abc[1] \o <<"*">> \o Paren(abc[2] \o <<"+">> \o abc[3]))) :
            abc \in SmallLits \X SmallLits \X SmallLits, f \in {N_fabs, N_foo}}
    \cup {WithFuncs("f(g(a),b)", <<a, b>>, f, Call2(f, Call1(N_foo, a), b)) :
            a \in SmallLits, b \in SmallLits, f \in {N_max, N_bar}}
    \cup {WithFuncs("f(g(a),h(b))", <<a, b>>, f,
                    Call2(f, Call1(N_foo, a), Call1(N_fabs, b))) :
            a \in SmallLits, b \in SmallLits, f \in {N_max, N_bar}}
    \cup {WithFuncs("f(a/0,b%0)", <<a, b>>, f,
                    Call2(f, a \o <<"/", "0">>, b \o <<"%", "0">>)) :
            a \in SmallLits, b \in SmallLits, f \in {N_max, N_bar}}

\* a right operand of value zero: literals, a group, a call, a variable
N_z == <<"z">>

ZeroTexts == {<<"0">>, <<"0", ".", "0">>, <<"-", "0">>, Paren(<<"1", "-", "1">>),
              Call1(N_fabs, <<"0">>), N_z}

\* "a D z" alone, after an addition, before a multiplication, in a group,
\* in an argument, and before a subtraction of a power
DivZeroText(ctx, d, a, b) ==
    IF ctx = "_" THEN d
    ELSE IF ctx = "b+_" THEN b \o <<"+">> \o d
    ELSE IF ctx = "_*b" THEN d \o <<"*">> \o b
    ELSE IF ctx = "(_)+b" THEN Paren(d) \o <<"+">> \o b
    ELSE IF ctx = "max(_,b)" THEN Call2(N_max, d, b)
    ELSE d \o <<"-">> \o b \o OpPow \o b

DivZeroCalls ==
    {Call(ctx, <<ab[1], ab[2]>>, <<op>>, z,
          DivZeroText(ctx, ab[1] \o op \o z, ab[1], ab[2]),
          <<Var(N_z, "int", Zero)>>, <<>>) :
        ctx \in {"_", "b+_", "_*b", "(_)+b", "max(_,b)", "_-b**b"},
        ab \in SmallLits \X SmallLits, op \in DivOpSet, z \in ZeroTexts}

\* names that are no variable and no function, alone and beside calls and
\* arithmetic, and names that follow a digit
NameForms == {"x+a", "x+y", "a*foo(b)", "max(a,b)+y", "a+b*y",
              "ax", "a+bx", "aeb", "ax(b)"}

NameText(form, a, b) ==
    IF form = "x+a" THEN N_x \o <<"+">> \o a
    ELSE IF form = "x+y" THEN N_x \o <<"+">> \o N_y
    ELSE IF form = "a*foo(b)" THEN a \o <<"*">> \o Call1(N_foo, b)
    ELSE IF form = "max(a,b)+y" THEN Call2(N_max, a, b) \o <<"+">> \o N_y
    ELSE IF form = "a+b*y" THEN a \o <<"+">> \o b \o <<"*">> \o N_y
    ELSE IF form = "ax" THEN a \o N_x
    ELSE IF form = "a+bx" THEN a \o <<"+">> \o b \o N_x
    ELSE IF form = "aeb" THEN a \o <<"e">> \o b
    ELSE a \o Call1(N_x, b)

NameCalls ==
    {Call(form, <<ab[1], ab[2]>>, <<>>, <<>>, NameText(form, ab[1], ab[2]),
          IF form = "x+y" THEN <<Var(N_x, "int", FloatOf(ab[1]).v)>> ELSE <<>>,
          <<>>) :
        form \in NameForms, ab \in SmallLits \X SmallLits}

\* calls with arguments of the wrong type, and well-typed ones beside them
ArgCases == {"ok", "ok_bool", "missing", "expr_int", "vars_int", "funcs_int",
             "var_key", "var_str", "var_none", "var_second",
             "func_key", "func_int", "func_second"}

ArgForms == {"a+b", "max(a,b)", "foo(a)", "x+a"}

ArgText(form, a, b) ==
    IF form = "a+b" THEN a \o <<"+">> \o b
    ELSE IF form = "max(a,b)" THEN Call2(N_max, a, b)
    ELSE IF form = "foo(a)" THEN Call1(N_foo, a)
    ELSE N_x \o <<"+">> \o a

ArgVariables(case) ==
    IF case = "ok_bool" THEN <<Var(N_x, "bool", One)>>
    ELSE IF case = "var_key" THEN <<[Var(N_x, "int", One) EXCEPT !.kt = "int"]>>
    ELSE IF case = "var_str" THEN <<Var(N_x, "str", Zero)>>
    ELSE IF case = "var_none" THEN <<Var(N_x, "none", Zero)>>
    ELSE IF case = "var_second" THEN <<Var(N_x, "int", One), Var(N_y, "str", Zero)>>
    ELSE <<Var(N_x, "int", One)>>

ArgFunctions(case) ==
    IF case = "func_key" THEN <<[Func(N_foo, "foo") EXCEPT !.kt = "int"]>>
    ELSE IF case = "func_int" THEN <<[Func(N_foo, "") EXCEPT !.vt = "int"]>>
    ELSE IF case = "func_second"
         THEN <<Func(N_foo, "foo"), [Func(N_bar, "") EXCEPT !.vt = "int"]>>
    ELSE <<Func(N_foo, "foo")>>

ArgCalls ==
    {[form |-> form, lits |-> <<ab[1], ab[2]>>, ops |-> <<>>, name |-> <<case>>,
      npos |-> IF case = "missing" THEN 0 ELSE 1,
      etype |-> IF case = "expr_int" THEN "int" ELSE "str",
      expression |-> ArgText(form, ab[1], ab[2]),
      vtype |-> IF case = "vars_int" THEN "int" ELSE "dict",
      variables |-> ArgVariables(case),
      ftype |-> IF case = "funcs_int" THEN "int" ELSE "dict",
      functions |-> ArgFunctions(case)] :
        form \in ArgForms, case \in ArgCases, ab \in SmallLits \X SmallLits}

\* a user function under the name n of a function of the table
HostNames == {N_fabs, N_floor, N_pow, N_max, N_min}

OverrideCalls ==
    {Call("n(a)", <<ab[1], ab[2]>>, <<>>, n, Call1(n, ab[1]),
          <<>>, <<Func(n, "foo")>>) : n \in HostNames, ab \in SmallLits \X SmallLits}
    \cup {Call("n(a,b)", <<ab[1], ab[2]>>, <<>>, n, Call2(n, ab[1], ab[2]),
               <<>>, <<Func(n, "bar")>>) : n \in HostNames, ab \in SmallLits \X SmallLits}
    \cup {Call("n(a)+fabs(b)", <<ab[1], ab[2]>>, <<>>, n,
               Call1(n, ab[1]) \o <<"+">> \o Call1(N_fabs, ab[2]),
               <<>>, <<Func(n, "foo")>>) : n \in HostNames, ab \in SmallLits \X SmallLits}

\* the values of a variable: ints, floats (one that str() writes with an
\* exponent) and a bool
VarVals == {[vt |-> "int", n |-> IntNum(2)], [vt |-> "int", n |-> IntNum(-2)],
            [vt |-> "float", n |-> Half], [vt |-> "float", n |-> IntNum(2)],
            [vt |-> "float", n |-> [neg |-> FALSE, m |-> 1, e |-> 16]],
            [vt |-> "bool", n |-> One]}

VarForms == {"x+a", "a*x", "x**a", "max(x,a)", "x+x", "ax", "max(a,b)", "xy+x"}

VarText(form, a, b) ==
    IF form = "x+a" THEN N_x \o <<"+">> \o a
    ELSE IF form = "a*x" THEN a \o <<"*">> \o N_x
    ELSE IF form = "x**a" THEN N_x \o OpPow \o a
    ELSE IF form = "max(x,a)" THEN Call2(N_max, N_x, a)
    ELSE IF form = "x+x" THEN N_x \o <<"+">> \o N_x
    ELSE IF form = "ax" THEN a \o N_x
    ELSE IF form = "max(a,b)" THEN Call2(N_max, a, b)
    ELSE N_x \o N_y \o <<"+">> \o N_x

\* the variable is x; max in "max(a,b)"; x and xy in "xy+x"
VarCalls ==
    {Call(form, <<ab[1], ab[2]>>, <<>>, N_x, VarText(form, ab[1], ab[2]),
          IF form = "max(a,b)" THEN <<Var(N_max, v.vt, v.n)>>
          ELSE IF form = "xy+x"
               THEN <<Var(N_x, v.vt, v.n), Var(N_x \o N_y, "int", FloatOf(ab[1]).v)>>
          ELSE <<Var(N_x, v.vt, v.n)>>,
          <<>>) :
        form \in VarForms, v \in VarVals, ab \in SmallLits \X SmallLits}

\* the whitespace characters of the calls
Blanks == {" ", "\t", "\n"}

\* the text t with the characters w put in after its first i characters
Spaced(t, i, w) == Slice(t, 1, i) \o w \o Slice(t, i + 1, Len(t))

SpaceLits == SmallLits \cup {<<"1", "2">>}

\* "a op b" with whitespace put in at one place or around every token, and
\* the texts of whitespace only
SpaceCalls ==
    UNION {{Plain("ws", <<a, b>>, <<op>>, Spaced(a \o op \o b, i, <<w>>)) :
                i \in 0..Len(a \o op \o b), w \in Blanks}
           \cup {Plain("ws", <<a, b>>, <<op>>,
                       <<" ">> \o a \o <<"\t">> \o op \o <<"\n", " ">> \o b \o <<" ">>)} :
           a \in SpaceLits, b \in SmallLits, op \in BinOpSet}
    \cup {Plain("ws", <<>>, <<>>, t) : t \in {<<>>, <<" ">>, <<" ", "\t", "\n">>}}

Calls == BasicCalls \cup PowerCalls \cup PrecedenceCalls \cup AssocCalls \cup SignCalls
         \cup StructureCalls \cup DivZeroCalls \cup NameCalls
         \cup ArgCalls \cup OverrideCalls \cup VarCalls \cup SpaceCalls

Init ==
    /\ call \in Calls
    /\ pc = "arg_type"
    /\ all_functions = <<>>
    /\ expr = <<>>
    /\ stack = <<>>
    /\ outcome = NoOutcome
    /\ invoked = <<>>
    /\ arith = 0
    /\ sets = <<>>
    /\ keys = <<>>
    /\ last = ""
    /\ none_hash = 0
    /\ iter_index = <<>>
    /\ iterations = <<>>

Next ==
    \/ ArgType
    \/ Validate
    \/ BuildTable
    \/ StripWhitespace
    \/ ResolveIdentifiers
    \/ FunctionCall
    \/ EvalArgument
    \/ Invoke
    \/ Grouping
    \/ Exponentiation
    \/ Multiplicative
    \/ Additive
    \/ Return

Spec == Init /\ [][Next]_vars

\* the calls of the runs checked for termination: calls and groups, one
\* operator, and an additive operator before a higher one
TermCalls == StructureCalls \cup BasicCalls \cup PrecedenceCalls

TermInit ==
    /\ call \in TermCalls
    /\ pc = "arg_type"
    /\ all_functions = <<>>
    /\ expr = <<>>
    /\ stack = <<>>
    /\ outcome = NoOutcome
    /\ invoked = <<>>
    /\ arith = 0
    /\ sets = <<>>
    /\ keys = <<>>
    /\ last = ""
    /\ none_hash = 0
    /\ iter_index = <<>>
    /\ iterations = <<>>

\* evaluate() is sequential code: a call that can take a step takes it
TermSpec == TermInit /\ [][Next]_vars /\ WF_vars(Next)

(***************************************************************************)
(* class OpenAddressingSet.  A set is the record of its attributes, buckets *)
(* the sequence of its slots: slot i of Python is buckets[i + 1].          *)
(***************************************************************************)
\* the keys are a few integers up to MaxKey and None
MaxKey == 4

None == -1

EMPTY == -2

Keys == {0, MaxKey, None}

\* hash(key): an int is its own hash
Hash(key) == IF key = None THEN none_hash ELSE key

OpenAddressingSet(initial_capacity, growth_factor) ==
    [capacity |-> initial_capacity, size |-> 0, growth_factor |-> growth_factor,
     buckets |-> [i \in 1..initial_capacity |-> EMPTY]]

_hash(s, key) == Hash(key) % s.capacity

\* the loop that walks from slot _hash(key) does not end
Forever == -1

\* the number of slots the loop passes before the first one that is EMPTY
\* or holds key
Walk(s, key) ==
    LET stops == {d \in 0..s.capacity - 1 :
                     s.buckets[((_hash(s, key) + d) % s.capacity) + 1] \in {EMPTY, key}}
    IN  IF stops = {} THEN Forever
        ELSE CHOOSE d \in stops : \A e \in stops : d <= e

_probe(s, key) ==
    IF Walk(s, key) = Forever THEN Forever
    ELSE (_hash(s, key) + Walk(s, key)) % s.capacity

\* if self.buckets[index] is self.EMPTY: store key, size += 1
Store(s, index, key) ==
    IF s.buckets[index + 1] = EMPTY
    THEN [s EXCEPT !.buckets[index + 1] = key, !.size = @ + 1]
    ELSE s

\* a load that never asks for a resize
LoadedNever(s) == FALSE

\* (self.size + 1) / self.capacity > 0.7
Loaded(s) == 10 * (s.size + 1) > 7 * s.capacity

RECURSIVE add(_, _), AddBuckets(_, _)

\* for key in buckets: if key is not self.EMPTY: self.add(key)
AddBuckets(s, buckets) ==
    IF buckets = <<>> THEN s
    ELSE CHOOSE r \in {AddBuckets(t, Tail(buckets)) :
                         t \in {IF Head(buckets) = EMPTY THEN s
                                ELSE add(s, Head(buckets))}} : TRUE

_resize(s) ==
    AddBuckets(OpenAddressingSet(s.capacity * s.growth_factor, s.growth_factor),
               s.buckets)

add(s, key) ==
    CHOOSE r \in {Store(t, _probe(t, key), key) :
                    t \in {IF Loaded(s) THEN _resize(s) ELSE s}} : TRUE

remove(s, key) ==
    IF s.buckets[_probe(s, key) + 1] = key
    THEN [s EXCEPT !.buckets[_probe(s, key) + 1] = EMPTY, !.size = @ - 1]
    ELSE s

member(s, key) == s.buckets[_probe(s, key) + 1] = key

to_list(s) == SelectSeq(s.buckets, LAMBDA key : key # EMPTY)

RECURSIVE from_list(_, _)
from_list(s, lst) ==
    IF lst = <<>> THEN s
    ELSE CHOOSE r \in {from_list(t, Tail(lst)) : t \in {add(s, Head(lst))}} : TRUE

empty == OpenAddressingSet(8, 2)

\* a concat that stops after the first bucket of other_set
concatFirst(s, other_set) == AddBuckets(s, SubSeq(other_set.buckets, 1, 1))

concat(s, other_set) == AddBuckets(s, other_set.buckets)

\* the loop of filter, predicate the set of the keys it holds of
RECURSIVE FilterInto(_, _, _)
FilterInto(new_set, buckets, predicate) ==
    IF buckets = <<>> THEN new_set
    ELSE CHOOSE r \in {FilterInto(t, Tail(buckets), predicate) :
                         t \in {IF Head(buckets) # EMPTY /\ Head(buckets) \in predicate
                                THEN add(new_set, Head(buckets))
                                ELSE new_set}} : TRUE

\* a filter that asks no predicate
filterAll(s, predicate) ==
    FilterInto(OpenAddressingSet(s.capacity, s.growth_factor), s.buckets, Keys)

filter(s, predicate) ==
    FilterInto(OpenAddressingSet(s.capacity, s.growth_factor), s.buckets, predicate)

\* the loop of map, func a function on the keys
RECURSIVE MapInto(_, _, _)
MapInto(new_set, buckets, func) ==
    IF buckets = <<>> THEN new_set
    ELSE CHOOSE r \in {MapInto(t, Tail(buckets), func) :
                         t \in {IF Head(buckets) # EMPTY
                                THEN add(new_set, func[Head(buckets)])
                                ELSE new_set}} : TRUE

map(s, func) ==
    MapInto(OpenAddressingSet(s.capacity, s.growth_factor), s.buckets, func)

(***************************************************************************)
(* A program that holds sets and calls their methods.                      *)
(***************************************************************************)
\* the capacities and growth factors the sets are constructed with
InitCaps == {1, 4}

Growths == {2, 3}

\* no set grows beyond this capacity
MaxCapacity == 8

\* the lists given to from_list
MaxList == 2

Lists == UNION {[1..n -> Keys \ {None}] : n \in 0..MaxList}

NoneHashes == {0, 3}

\* the capacity of s after add(key) or from_list(lst) stays within MaxCapacity
Fits(s) == s.capacity <= MaxCapacity

Add(x, key) ==
    /\ x \in DOMAIN sets
    /\ \E t \in {add(sets[x], key)} :
          /\ Fits(t)
          /\ sets' = [sets EXCEPT ![x] = t]
    /\ last' = "add"
    /\ keys' = [keys EXCEPT ![x] = @ \cup {key}]
    /\ UNCHANGED <<none_hash, iter_index, iterations, eval_vars>>

Remove(x, key) ==
    /\ x \in DOMAIN sets
    /\ sets' = [sets EXCEPT ![x] = remove(@, key)]
    /\ keys' = [keys EXCEPT ![x] = @ \ {key}]
    /\ last' = "remove"
    /\ UNCHANGED <<none_hash, iter_index, iterations, eval_vars>>

FromList(x, lst) ==
    /\ x \in DOMAIN sets
    /\ \E t \in {from_list(sets[x], lst)} :
          /\ Fits(t)
          /\ sets' = [sets EXCEPT ![x] = t]
    /\ last' = "from_list"
    /\ keys' = [keys EXCEPT ![x] = @ \cup Range(lst)]
    /\ UNCHANGED <<none_hash, iter_index, iterations, eval_vars>>

\* the sets that create_set(lst) of the tests builds
Others == {from_list(empty, lst) : lst \in Lists}

\* x.concat(other_set)
Concat(x, other_set) ==
    /\ x \in DOMAIN sets
    /\ \E t \in {concat(sets[x], other_set)} :
          /\ Fits(t)
          /\ sets' = [sets EXCEPT ![x] = t]
    /\ last' = "concat"
    /\ keys' = [keys EXCEPT ![x] = @ \cup (Range(other_set.buckets) \ {EMPTY})]
    /\ UNCHANGED <<none_hash, iter_index, iterations, eval_vars>>

\* an evaluate() that is never called
Idle == Plain("none", <<>>, <<>>, <<>>)

SetInit ==
    /\ \E c \in InitCaps, g \in Growths : sets = [x \in {"s"} |-> OpenAddressingSet(c, g)]
    /\ keys = [x \in {"s"} |-> {}]
    /\ last = "__init__"
    /\ none_hash \in NoneHashes
    /\ iter_index = <<>>
    /\ iterations = <<>>
    /\ call = Idle
    /\ pc = "none"
    /\ all_functions = <<>>
    /\ expr = <<>>
    /\ stack = <<>>
    /\ outcome = NoOutcome
    /\ invoked = <<>>
    /\ arith = 0

SetNext ==
    \/ \E key \in Keys : Add("s", key)
    \/ \E key \in Keys : Remove("s", key)
    \/ \E lst \in Lists : FromList("s", lst)
    \/ \E other_set \in Others : Concat("s", other_set)

SetSpec == SetInit /\ [][SetNext]_vars

\* the predicates given to filter, each the set of the keys it holds of:
\* lambda x: x % 2 == 0 of the tests, and lambda x: x is None
Predicates == {{key \in Keys \ {None} : key % 2 = 0}, {None}}

\* the functions given to map: a constant, and one that is one-to-one
Funcs == {[key \in Keys |-> 0],
          [key \in Keys |-> IF key = None THEN None ELSE MaxKey - key]}

\* y = x.filter(predicate)
Filter(x, y, predicate) ==
    /\ x \in DOMAIN sets /\ y \in DOMAIN sets /\ x # y
    /\ sets' = [sets EXCEPT ![y] = filter(sets[x], predicate)]
    /\ keys' = [keys EXCEPT ![y] = keys[x] \cap predicate]
    /\ last' = "filter"
    /\ UNCHANGED <<none_hash, iter_index, iterations, eval_vars>>

\* y = x.map(func)
Map(x, y, func) ==
    /\ x \in DOMAIN sets /\ y \in DOMAIN sets /\ x # y
    /\ sets' = [sets EXCEPT ![y] = map(sets[x], func)]
    /\ keys' = [keys EXCEPT ![y] = {func[key] : key \in keys[x]}]
    /\ last' = "map"
    /\ UNCHANGED <<none_hash, iter_index, iterations, eval_vars>>

\* x = OpenAddressingSet.empty()
Empty(x) ==
    /\ x \in DOMAIN sets
    /\ sets[x] # empty
    /\ sets' = [sets EXCEPT ![x] = empty]
    /\ keys' = [keys EXCEPT ![x] = {}]
    /\ last' = "empty"
    /\ UNCHANGED <<none_hash, iter_index, iterations, eval_vars>>

\* the names of the sets of a program that builds sets from lists and
\* combines them
Names == {"a", "b"}

\* the sets start as OpenAddressingSet(initial_capacity=c)
AlgebraInit ==
    /\ \E c \in InitCaps : sets = [x \in Names |-> OpenAddressingSet(c, 2)]
    /\ keys = [x \in Names |-> {}]
    /\ last = "__init__"
    /\ none_hash \in NoneHashes
    /\ iter_index = <<>>
    /\ iterations = <<>>
    /\ call = Idle
    /\ pc = "none"
    /\ all_functions = <<>>
    /\ expr = <<>>
    /\ stack = <<>>
    /\ outcome = NoOutcome
    /\ invoked = <<>>
    /\ arith = 0

AlgebraNext ==
    \/ \E x \in Names : Add(x, None)
    \/ \E x \in Names, lst \in Lists : FromList(x, lst)
    \/ \E x \in Names : \E y \in Names \ {x} : Concat(x, sets[y])
    \/ \E x \in Names, y \in Names, predicate \in Predicates : Filter(x, y, predicate)
    \/ \E x \in Names, y \in Names, func \in Funcs : Map(x, y, func)
    \/ \E x \in Names : Empty(x)

AlgebraSpec == AlgebraInit /\ [][AlgebraNext]_vars

(***************************************************************************)
(* Iteration: __iter__ and __next__.                                       *)
(***************************************************************************)
\* the function f with x mapped to v
With(f, x, v) == [y \in DOMAIN f \cup {x} |-> IF y = x THEN v ELSE f[y]]

\* the iteration index after skipping the EMPTY slots from index on: that of
\* the first slot with a key, capacity when there is none
RECURSIVE Skip(_, _)
Skip(s, index) ==
    IF index < s.capacity /\ s.buckets[index + 1] = EMPTY THEN Skip(s, index + 1)
    ELSE index

\* __next__ with iter_index at index: the key returned and the new
\* iter_index, or stop for StopIteration
__next__(s, index) ==
    CHOOSE r \in {IF i < s.capacity
                  THEN [stop |-> FALSE, key |-> s.buckets[i + 1], iter_index |-> i + 1]
                  ELSE [stop |-> TRUE, key |-> EMPTY, iter_index |-> i] :
                  i \in {Skip(s, index)}} : TRUE

\* the results of iter() the program holds
Handles == {1, 2}

\* h = iter(sets[x]): __iter__ sets iter_index to 0 and returns the set
Iter(x, h) ==
    /\ x \in DOMAIN sets
    /\ h \notin DOMAIN iterations
    /\ iter_index' = With(iter_index, x, 0)
    /\ iterations' = With(iterations, h, [of |-> x, yielded |-> <<>>, stopped |-> FALSE])
    /\ last' = "__iter__"
    /\ UNCHANGED <<sets, keys, none_hash, eval_vars>>

\* next(h): h is the set itself, so __next__ goes on from its iter_index
NextKey(h) ==
    /\ h \in DOMAIN iterations
    /\ ~iterations[h].stopped
    /\ \E x \in {iterations[h].of} : \E r \in {__next__(sets[x], iter_index[x])} :
          /\ iter_index' = With(iter_index, x, r.iter_index)
          /\ iterations' = With(iterations, h,
                                IF r.stop THEN [iterations[h] EXCEPT !.stopped = TRUE]
                                ELSE [iterations[h] EXCEPT !.yielded = Append(@, r.key)])
    /\ last' = "__next__"
    /\ UNCHANGED <<sets, keys, none_hash, eval_vars>>

\* a set filled by from_list, as in test_iterator, and no iteration yet
IterInit ==
    /\ \E c \in InitCaps, g \in Growths, lst \in Lists :
          /\ sets = [x \in {"s"} |-> from_list(OpenAddressingSet(c, g), lst)]
          /\ keys = [x \in {"s"} |-> Range(lst)]
    /\ last = "from_list"
    /\ none_hash \in NoneHashes
    /\ iter_index = <<>>
    /\ iterations = <<>>
    /\ call = Idle
    /\ pc = "none"
    /\ all_functions = <<>>
    /\ expr = <<>>
    /\ stack = <<>>
    /\ outcome = NoOutcome
    /\ invoked = <<>>
    /\ arith = 0

IterNext ==
    \/ \E h \in Handles : Iter("s", h)
    \/ \E h \in Handles : NextKey(h)

IterSpec == IterInit /\ [][IterNext]_vars

(***************************************************************************)
(* Properties of the arithmetic of evaluate().                             *)
(***************************************************************************)
Done == pc = "done"

\* the value of the i-th literal of the expression
Lit(i) == FloatOf(call.lits[i]).v

\* a op b computed directly
BinArith(a, op, b) ==
    IF op = OpPow THEN ExpArith(a, op, b)
    ELSE IF op \in MulOpSet THEN MulArith(a, op, b)
    ELSE AddArith(a, op, b)

\* evaluate() ended as the computation r did: it returned r's number, or
\* raised the evaluation error where r raises
Agrees(r) ==
    IF r.st = "ok" THEN outcome.kind = "value" /\ NumEq(outcome.v, r.v)
    ELSE IF r.st = "raise" THEN outcome.kind = "error" /\ outcome.err = "Evaluation"
    ELSE outcome.kind = "unmodelled"

\* a ** (b ** c)
PowRight ==
    LET bc == PowF(Lit(2), Lit(3))
    IN IF bc.st = "ok" THEN PowF(Lit(1), bc.v) ELSE bc

\* C1: exponentiation is right-associative: evaluate("a**b**c") returns
\* a**(b**c) for all numeric literals a, b, c.
RightAssociativePower == (Done /\ call.form = "a**b**c") => Agrees(PowRight)

\* "a A b H c" of non-negative literals, no zero divisor
PrecedenceCase ==
    /\ Done /\ call.form = "a.b.c"
    /\ call.ops[1] \in AddOpSet /\ call.ops[2] \in HighOpSet
    /\ \A i \in 1..Len(call.lits) : call.lits[i][1] # "-"
    /\ call.ops[2] \in DivOpSet => ~IsZero(Lit(3))

\* a A (b H c)
HighFirst ==
    LET bc == BinArith(Lit(2), call.ops[2], Lit(3))
    IN IF bc.st = "ok" THEN BinArith(Lit(1), call.ops[1], bc.v) ELSE bc

\* C2: the operators **, *, /, // and % bind tighter than + and -:
\* evaluate("a A b H c") returns a A (b H c) for non-negative literals, every
\* additive A and every higher H (c non-zero when a divisor).
HigherBindsTighter == PrecedenceCase => Agrees(HighFirst)

\* "-a+b" and "a op -b", b non-zero when a divisor
SignCase ==
    /\ Done /\ call.form \in {"-a+b", "a.-b"}
    /\ (call.form = "a.-b" /\ call.ops[1] \in DivOpSet) => ~IsZero(Lit(2))

\* b - a, and a op (-b)
SignedOperand ==
    IF call.form = "-a+b" THEN Ok(SubF(Lit(2), Lit(1)))
    ELSE BinArith(Lit(1), call.ops[1], Neg(Lit(2)))

\* C3: a minus sign that starts the expression or directly follows a binary
\* operator is the sign of the literal after it: evaluate("-a+b") returns
\* b-a and evaluate("a op -b") returns a op (-b).
MinusIsSign == SignCase => Agrees(SignedOperand)

\* "a--b" returned a+b, for b other than zero
MinusIsSignWitness ==
    /\ SignCase /\ call.form = "a.-b" /\ call.ops[1] = <<"-">>
    /\ ~IsZero(Lit(2))
    /\ outcome.kind = "value" /\ outcome.v = AddF(Lit(1), Lit(2))

\* "a p b q c" with p and q both multiplicative or both additive, no zero
\* divisor
AssocCase ==
    /\ Done /\ call.form = "a.b.c"
    /\ \/ call.ops[1] \in MulOpSet /\ call.ops[2] \in MulOpSet
       \/ call.ops[1] \in AddOpSet /\ call.ops[2] \in AddOpSet
    /\ call.ops[1] \in DivOpSet => ~IsZero(Lit(2))
    /\ call.ops[2] \in DivOpSet => ~IsZero(Lit(3))

\* (a p b) q c
LeftFirst ==
    LET ab == BinArith(Lit(1), call.ops[1], Lit(2))
    IN IF ab.st = "ok" THEN BinArith(ab.v, call.ops[2], Lit(3)) ELSE ab

\* C4: the multiplicative and the additive operators are left-associative:
\* evaluate("a p b q c") returns (a p b) q c for all numeric literals,
\* p, q both in {*, /, //, %} or both in {+, -}, no division by zero.
LeftAssociative == AssocCase => Agrees(LeftFirst)

(***************************************************************************)
(* Properties of calls and groups.                                         *)
(***************************************************************************)
\* "f((a+b),c)" and "f(a*(b+c))"
GroupInArgumentCase == Done /\ call.form \in {"f((a+b),c)", "f(a*(b+c))"}

\* the values of the arguments of f
ArgValues ==
    IF call.form = "f((a+b),c)" THEN <<AddF(Lit(1), Lit(2)), Lit(3)>>
    ELSE <<MulF(Lit(1), AddF(Lit(2), Lit(3)))>>

\* C5: a parenthesized group in an argument of a call is reduced to its
\* value, f is then invoked on the values of its arguments, and evaluate
\* returns f's result.
GroupInArgument ==
    GroupInArgumentCase =>
        LET r == ApplyImpl(all_functions[call.name].impl, ArgValues)
        IN /\ outcome.kind = "value" /\ NumEq(outcome.v, r.v.n)
           /\ Len(invoked) = Len(<<call.name>>)
           /\ invoked[Len(invoked)].fn = call.name
           /\ invoked[Len(invoked)].vals = ArgValues

\* a /, // or % whose right operand has the value zero
DivZeroCase ==
    Done /\ call.form \in {"_", "b+_", "_*b", "(_)+b", "max(_,b)", "_-b**b"}

\* C6: division, floor division and modulo by zero always fail: evaluate
\* raises the evaluation error and returns no number, wherever the
\* operation stands in the expression.
DivisionByZeroFails ==
    DivZeroCase => outcome.kind = "error" /\ outcome.err = "Evaluation"

(***************************************************************************)
(* Properties of the arguments, the identifiers and the function table.    *)
(***************************************************************************)
\* the arguments pass the checks of evaluate()
WellTyped == call.npos # 0 /\ call.etype = "str" /\ ValidArgs(call)

Variables == Entries(call.vtype, call.variables)

\* the name-like tokens of s from i on: a letter or underscore and the
\* letters, digits and underscores that follow it
RECURSIVE NameTokens(_, _)
NameTokens(s, i) ==
    IF i > Len(s) THEN {}
    ELSE IF IsIdentStart(s[i])
         THEN {Slice(s, i, WordRunEnd(s, i))} \cup NameTokens(s, WordRunEnd(s, i) + 1)
    ELSE NameTokens(s, i + 1)

\* the tokens that are no key of variables and no key of the function table
UnknownTokens ==
    {t \in NameTokens(StripSpace(call.expression), 1) :
        /\ KeyIndex(Variables, t) = 0
        /\ t \notin DOMAIN AllFunctions(Entries(call.ftype, call.functions))}

\* C7: a name-like token of the expression that is neither a variable nor a
\* function makes evaluate fail with the unknown-identifier error naming the
\* token, before any function is invoked and any arithmetic is performed.
UnknownNameFails ==
    (WellTyped /\ UnknownTokens # {}) =>
        /\ invoked = <<>> /\ arith = 0
        /\ Done => /\ outcome.kind = "error" /\ outcome.err = "UnknownIdentifier"
                   /\ outcome.tok \in UnknownTokens

\* an argument of the wrong type: the expression, variables, functions, a
\* key or a value of variables (a bool is an int), a key or a value of
\* functions
IllTyped ==
    \/ call.etype # "str"
    \/ call.vtype \notin {"none", "dict"}
    \/ call.ftype \notin {"none", "dict"}
    \/ /\ call.vtype = "dict"
       /\ \E e \in Range(call.variables) :
             e.kt # "str" \/ e.vt \notin {"int", "float", "bool"}
    \/ /\ call.ftype = "dict"
       /\ \E e \in Range(call.functions) : e.kt # "str" \/ e.vt # "func"

\* C8: validation is complete before evaluation starts: with an argument of
\* the wrong type evaluate fails with the argument error whatever the
\* expression contains, invokes no function and does not rewrite the
\* expression.
ValidationFirst ==
    (call.npos # 0 /\ IllTyped) =>
        /\ invoked = <<>> /\ arith = 0 /\ expr = <<>> /\ stack = <<>>
        /\ Done => outcome = Error("ArgumentType", <<>>)

\* evaluate("foo(a)", functions={"foo": 123}) raised the argument error
ValidationFirstWitness ==
    /\ Done /\ IllTyped /\ call.name = <<"func_int">> /\ call.form = "foo(a)"
    /\ outcome = Error("ArgumentType", <<>>)

\* the names of the table of the host that functions has too
Overridden ==
    {n \in DOMAIN MathFuncs \cup DOMAIN BuiltinFuncs :
        KeyIndex(Entries(call.ftype, call.functions), n) # 0}

\* the function that functions has under the name n
UserImpl(n) == call.functions[KeyIndex(call.functions, n)].impl

\* the number a function returns
Result(impl, vals) == ApplyImpl(impl, vals).v.n

\* what "n(a)", "n(a,b)" and "n(a)+fabs(b)" are with the function of the
\* caller under the name n
UserResult ==
    IF call.form = "n(a)" THEN Result(UserImpl(call.name), <<Lit(1)>>)
    ELSE IF call.form = "n(a,b)" THEN Result(UserImpl(call.name), <<Lit(1), Lit(2)>>)
    ELSE AddF(Result(UserImpl(call.name), <<Lit(1)>>),
              Result(IF call.name = N_fabs THEN UserImpl(N_fabs) ELSE "math.fabs",
                     <<Lit(2)>>))

\* C9: a function of the caller overrides the function of the table of the
\* same name: every call n(...) invokes the caller's function, evaluate
\* uses its result, and the host function of that name is never invoked.
UserFunctionWins ==
    WellTyped =>
        /\ \A i \in 1..Len(invoked) :
              invoked[i].fn \in Overridden =>
                  /\ invoked[i].origin = "user"
                  /\ invoked[i].impl = UserImpl(invoked[i].fn)
        /\ (Done /\ call.form \in {"n(a)", "n(a,b)", "n(a)+fabs(b)"}) =>
              outcome.kind = "value" /\ NumEq(outcome.v, UserResult)

\* "max(a,b)" with functions={"max": lambda x, y: x + y} returned a+b
UserFunctionWinsWitness ==
    /\ Done /\ WellTyped /\ call.form = "n(a,b)" /\ call.name = N_max
    /\ N_max \in Overridden
    /\ Len(invoked) = Len(<<N_max>>) /\ invoked[Len(invoked)].origin = "user"
    /\ outcome.kind = "value" /\ outcome.v = AddF(Lit(1), Lit(2))

\* s from i on with every identifier that is a key of variables replaced
\* by the text of its value, and every other character in place
RECURSIVE Substituted(_, _, _)
Substituted(s, i, variables) ==
    IF i > Len(s) THEN <<>>
    ELSE IF ~IsIdentStart(s[i]) THEN <<s[i]>> \o Substituted(s, i + 1, variables)
    ELSE LET w   == WordRunEnd(s, i)
             tok == Slice(s, i, w)
             vi  == KeyIndex(variables, tok)
         IN (IF vi # 0 THEN Str([t |-> variables[vi].vt, n |-> variables[vi].n])
             ELSE tok) \o Substituted(s, w + 1, variables)

\* the identifier resolver has returned
HasResolved ==
    \/ pc = "eval"
    \/ Done /\ outcome.err \notin {"MissingArgument", "ArgumentType", "Empty",
                                   "UnknownIdentifier"}

\* C10: the identifier resolver changes only variable tokens: its output is
\* the whitespace-stripped expression with every identifier that is a key
\* of variables replaced by the text of its value, and everything else
\* unchanged and in place.
OnlyVariablesReplaced ==
    HasResolved => expr = Substituted(StripSpace(call.expression), 1, Variables)

(***************************************************************************)
(* Whitespace.                                                             *)
(***************************************************************************)
\* the expression holds whitespace and nothing else
Blank == \A i \in 1..Len(call.expression) : IsSpace(call.expression[i])

\* the call is "a op b", written with or without whitespace
TwoOperands == call.form \in {"a.b", "ws"} /\ Len(call.lits) = 2

\* C11: an expression that is empty once its whitespace is removed ends in
\* the empty-expression error, and "a op b" ends as the arithmetic on a and b
\* does wherever whitespace is put into it and when none is
WhitespaceIgnored ==
    Done =>
        /\ call.form \in {"a.b", "ws"} /\ Blank => outcome = Error("Empty", <<>>)
        /\ TwoOperands => Agrees(BinArith(Lit(1), call.ops[1], Lit(2)))

\* an expression with whitespace inside a literal or an operator was evaluated
WhitespaceIgnoredWitness ==
    /\ Done /\ call.form = "ws" /\ TwoOperands
    /\ \E i \in 2..Len(call.expression) - 1 :
          /\ IsSpace(call.expression[i])
          /\ call.expression[i - 1] = call.expression[i + 1]
          /\ call.expression[i - 1] \in {"*", "/"}
    /\ outcome.kind = "value"


(***************************************************************************)
(* Properties of OpenAddressingSet.                                        *)
(***************************************************************************)
\* the keys stored in the buckets of s
Stored(s) == Range(s.buckets) \ {EMPTY}

\* C12: each set is the mathematical set of the keys added to it and not
\* removed afterwards: member(key) is true of exactly these keys
MembersAreKeys ==
    \A x \in DOMAIN sets : \A key \in Keys : member(sets[x], key) <=> key \in keys[x]

\* C13: no key is stored in two buckets, to_list() lists the keys present
\* without a duplicate, and size is the number of distinct keys present
StoredOnce ==
    \A x \in DOMAIN sets :
        /\ \A i, j \in 1..sets[x].capacity :
              sets[x].buckets[i] = sets[x].buckets[j] /\ i # j => sets[x].buckets[i] = EMPTY
        /\ Range(to_list(sets[x])) = keys[x]
        /\ Len(to_list(sets[x])) = Cardinality(keys[x])
        /\ sets[x].size = Cardinality(keys[x])

\* what add(key) on the set named x does to its capacity and its keys
Resizing(x, key) ==
    /\ sets'[x].capacity = IF Loaded(sets[x]) THEN sets[x].capacity * sets[x].growth_factor
                           ELSE sets[x].capacity
    /\ Loaded(sets[x]) =>
          /\ Stored(sets'[x]) = Stored(sets[x]) \cup {key}
          /\ \A k \in keys'[x] : member(sets'[x], k)
          /\ \A k \in Keys \ keys'[x] : ~member(sets'[x], k)

\* C14: add(key) multiplies capacity by growth_factor once if
\* (size + 1) / capacity > 0.7 on entry and leaves it alone if not, and after
\* a resize the set holds the keys it held and key: none is lost, and no key
\* removed earlier is a member again
ResizeKeepsKeys ==
    [][\A x \in DOMAIN sets : \A key \in Keys : Add(x, key) => Resizing(x, key)]_vars


\* the number of buckets of s that hold a key
Filled(s) == Cardinality({i \in 1..s.capacity : s.buckets[i] # EMPTY})

\* C20: in every set, size is the number of buckets that are not EMPTY and
\* is at most 0.7 * capacity, a bucket is EMPTY, and the walk that _probe,
\* member and remove make ends for every key, stored or not
LoadInvariant ==
    \A x \in DOMAIN sets :
        /\ sets[x].size = Filled(sets[x])
        /\ 10 * sets[x].size <= 7 * sets[x].capacity
        /\ \E i \in 1..sets[x].capacity : sets[x].buckets[i] = EMPTY
        /\ \A key \in Keys \cup {MaxKey + 1} : Walk(sets[x], key) # Forever

\* a set that grew is as full as add() lets it be after a concat
LoadInvariantWitness ==
    /\ last = "concat"
    /\ sets["s"].capacity = MaxCapacity
    /\ Loaded(sets["s"])
    /\ \E key \in Keys : key \in keys["s"] /\ ~member(sets["s"], key)


\* what x.concat(y) does to the sets named x and y
Union(x, y) ==
    /\ Stored(sets'[x]) = Stored(sets[x]) \cup Stored(sets[y])
    /\ sets'[y] = sets[y]

\* a.concat(empty()) and empty().concat(a) hold the keys of a
Identity(a) ==
    /\ Stored(concat(a, empty)) = Stored(a)
    /\ Stored(concat(empty, a)) = Stored(a)

\* (a.concat(b)).concat(c) holds the keys of a.concat(b.concat(c))
Associative(a, b, c) ==
    Stored(concat(concat(a, b), c)) = Stored(concat(a, concat(b, c)))

\* C15: a.concat(b) leaves in a the union of the keys of a and b and leaves b
\* as it was; concat with empty() on either side keeps the keys; and the two
\* ways to concat three sets built by from_list give the same keys
MonoidLaws ==
    /\ [][\A x \in Names : \A y \in Names \ {x} : Concat(x, sets[y]) => Union(x, y)]_vars
    /\ [](\A x \in Names : Identity(sets[x]))
    /\ [](\A x \in Names : \A y \in Names \ {x} : \A c \in Others :
             /\ Associative(sets[x], sets[y], c)
             /\ Associative(c, sets[x], sets[y]))

\* a concat put keys of b in a, which grew and now holds every key
MonoidLawsWitness ==
    /\ last = "concat"
    /\ Stored(sets["a"]) = Keys
    /\ Stored(sets["b"]) \notin {{}, Keys}
    /\ sets["a"].capacity > sets["b"].capacity

\* each key of s is stored in one bucket and size counts the keys
Proper(s) == Len(to_list(s)) = Cardinality(Stored(s)) /\ s.size = Cardinality(Stored(s))

\* what y = x.filter(predicate) leaves in the sets named x and y
Filtered(x, y, predicate) ==
    /\ sets'[x] = sets[x]
    /\ Stored(sets'[y]) = Stored(sets[x]) \cap predicate
    /\ Proper(sets'[y])

\* what y = x.map(func) leaves in the sets named x and y
Mapped(x, y, func) ==
    /\ sets'[x] = sets[x]
    /\ Stored(sets'[y]) = {func[key] : key \in Stored(sets[x])}
    /\ Proper(sets'[y])

\* C16: filter and map leave the buckets, size and capacity of the receiver
\* as they were; the new set of filter holds the keys of the receiver that
\* satisfy the predicate, the new set of map the images of its keys, each
\* stored once
NewSetOnly ==
    [][\A x \in Names : \A y \in Names \ {x} :
          /\ \A predicate \in Predicates :
                Filter(x, y, predicate) => Filtered(x, y, predicate)
          /\ \A func \in Funcs : Map(x, y, func) => Mapped(x, y, func)]_vars

\* a map gave two keys or more one image
NewSetOnlyWitness ==
    /\ last = "map"
    /\ \E x \in Names : \E y \in Names \ {x} :
          /\ Cardinality(Stored(sets[x])) > 1
          /\ Stored(sets[y]) = {0}
          /\ sets[y].size = 1


(***************************************************************************)
(* The order of the calls.                                                 *)
(***************************************************************************)
\* the places of expr where a name is followed by "("
CallPlaces == {i \in 2..Len(expr) : expr[i] = "(" /\ IsWord(expr[i - 1])}

\* the i-th invocation was of fn with the arguments vals
Invoked(i, fn, vals) ==
    /\ invoked[i].fn = fn
    /\ Len(invoked[i].vals) = Len(vals)
    /\ \A j \in 1..Len(vals) : NumEq(invoked[i].vals[j], vals[j])

\* foo(a) of the tests
Foo(a) == MulF(a, IntNum(42))

\* the invocations so far are the first ones of the sequence calls
InOrder(calls) ==
    /\ Len(invoked) <= Len(calls)
    /\ \A i \in 1..Len(invoked) : Invoked(i, calls[i][1], calls[i][2])
    /\ Done /\ outcome.kind = "value" => Len(invoked) = Len(calls)

\* C18: a call is invoked once all its arguments are evaluated, from the
\* left to the right, a call in an argument before the call around it, which
\* gets its result, and no call of the expression is invoked twice
InnermostFirst ==
    /\ Len(invoked) <= Cardinality(CallPlaces)
    /\ call.form = "f(a,b)" => InOrder(<<<<call.name, <<Lit(1), Lit(2)>>>>>>)
    /\ call.form = "f(g(a),b)" =>
          InOrder(<<<<N_foo, <<Lit(1)>>>>, <<call.name, <<Foo(Lit(1)), Lit(2)>>>>>>)
    /\ call.form = "f(g(a),h(b))" =>
          InOrder(<<<<N_foo, <<Lit(1)>>>>, <<N_fabs, <<Lit(2)>>>>,
                    <<call.name, <<Foo(Lit(1)), Lit(2)>>>>>>)
    /\ call.form = "f(a/0,b%0)" =>
          /\ invoked = <<>>
          /\ Done => outcome = Error("Evaluation", <<"/">>)

\* the call around two calls was invoked last, with the results of both
InnermostFirstWitness ==
    /\ Done /\ call.form = "f(g(a),h(b))" /\ call.name = N_bar
    /\ Len(invoked) = 3
    /\ ~NumEq(Lit(1), Lit(2))
    /\ outcome.kind = "value"


(***************************************************************************)
(* The rewrites of eval_flat.                                              *)
(***************************************************************************)
\* the binary operator that stands at s[k..], <<>> when there is none
OpAt(s, k) ==
    IF HasAt(s, k, <<"*", "*">>) THEN <<"*", "*">>
    ELSE IF HasAt(s, k, <<"/", "/">>) THEN <<"/", "/">>
    ELSE IF k <= Len(s) /\ s[k] \in {"*", "/", "%", "+", "-"} THEN <<s[k]>>
    ELSE <<>>

\* stands for a place where a text is no literal or no operator
Bad == <<"?">>

\* the binary operators of s[i..], read as optionally signed literals
\* separated by single binary operators
RECURSIVE FlatOps(_, _)
FlatOps(s, i) ==
    LET e == NumEnd(s, i)
    IN IF e = 0 THEN <<Bad>>
       ELSE IF e = Len(s) THEN <<>>
       ELSE IF OpAt(s, e + 1) = <<>> THEN <<Bad>>
       ELSE <<OpAt(s, e + 1)>> \o FlatOps(s, e + 1 + Len(OpAt(s, e + 1)))

\* s is a string of optionally signed literals separated by operators
IsFlat(s) == Bad \notin Range(FlatOps(s, 1))

\* p is q without one of its elements
OneLess(q, p) ==
    \E k \in 1..Len(q) : p = SubSeq(q, 1, k - 1) \o SubSeq(q, k + 1, Len(q))

\* a rewrite of eval_flat
FlatRewrite == pc = "eval" /\ pc' = "eval" /\ arith' = arith + 1

\* C19: a rewrite of eval_flat in a string of optionally signed literals
\* separated by single binary operators takes one operator out of the string
\* and leaves the others in place, in a string of the same kind
OneOperatorLess ==
    [][FlatRewrite /\ IsFlat(Top.s) =>
          OneLess(FlatOps(Top.s, 1), FlatOps(Top'.s, 1))]_vars



(***************************************************************************)
(* Termination.                                                            *)
(***************************************************************************)
\* the text of the k-th activation of eval_expr is rewritten
Rewritten(k) == k <= Len(stack') /\ stack'[k].s # stack[k].s

\* the number of "(" of s
Parens(s) == Cardinality({i \in 1..Len(s) : s[i] = "("})

\* the number of places of s where an operator follows a digit
BinPlaces(s) ==
    Cardinality({i \in 2..Len(s) :
                    s[i] \in {"*", "/", "%", "+", "-"} /\ IsDigit(s[i - 1])})

\* the text t has fewer "(" than s, or as many and fewer operators after a
\* digit
Smaller(t, s) ==
    \/ Parens(t) < Parens(s)
    \/ Parens(t) = Parens(s) /\ BinPlaces(t) < BinPlaces(s)

EachKeyOnce ==
    \A h \in DOMAIN iterations :
        LET y == iterations[h].yielded
            s == sets[iterations[h].of]
        IN /\ \A i, j \in 1..Len(y) : i # j => y[i] # y[j]
           /\ Range(y) \subseteq Stored(s)
           /\ iterations[h].stopped => Range(y) = Stored(s)

====
